---- MODULE Spec2Model ----
(***************************************************************************)
(* Slot / graph serialization engine of type-builder.                      *)
(*                                                                         *)
(* A flow is a list of nodes (the start node, group nodes holding an       *)
(* ordered list of bubbles, standalone note nodes) and a list of edges.    *)
(* Every bubble may carry a supabaseColumn string ("M7", "T2", ...).       *)
(* Strings whose content the code inspects (columns, order tags) are       *)
(* modelled as sequences of one-character strings, so that trim,           *)
(* toUpperCase, the column regular expression and number formatting are    *)
(* computed as the code computes them.  A missing (undefined) column is    *)
(* the empty sequence: every test in the code treats undefined and "" the  *)
(* same way (falsy).                                                        *)
(***************************************************************************)
EXTENDS Integers, Sequences, FiniteSets, TLC

VARIABLES nodes, edges, nodeCtr, bubbleCtr, edgeCtr, last, row

vars == <<nodes, edges, nodeCtr, bubbleCtr, edgeCtr, last, row>>

(***************************************************************************)
(* Program constants                                                       *)
(***************************************************************************)
COLUMN_LIMIT == 50

StartNodeId == "start-node"

NULL == [kind |-> "null", index |-> 0]

NoUpdates == [id \in {} |-> <<>>]

(***************************************************************************)
(* Bounds of the model                                                     *)
(***************************************************************************)
\* Spec: nodes, bubbles and edges ever created
MaxNodes == 2
MaxBubbles == 3
MaxEdges == 1
\* SpecOrder: nodes and edges ever created
MaxOrderNodes == 3
MaxOrderEdges == 3
\* SpecLimit: nodes and bubbles ever created, timer and note bubbles present
MaxLimitNodes == 1
MaxLimitBubbles == 52
MaxLimitOthers == 1
\* SpecManual: nodes and bubbles ever created
MaxManualNodes == 2
MaxManualBubbles == 2
\* SpecDrop: nodes and bubbles ever created, timer and note bubbles present
MaxDropNodes == 2
MaxDropBubbles == 52
MaxDropOthers == 0
\* SpecSnapshot: nodes, bubbles and edges ever created
MaxSnapNodes == 2
MaxSnapBubbles == 2
MaxSnapEdges == 1
MaxAnnotNodes == 3
MaxAnnotEdges == 1
\* SpecImport: the M and T columns of a row that may hold a value, and the
\* groups a snapshot records
MaxFetchedM == 2
MaxFetchedT == 1
MaxSnapshotGroups == 2
\* the resolution of the numbers of the model: a coordinate counts steps of
\* 1/PX of a pixel, so that n * PX is the whole number n and the coordinates
\* between two whole numbers exist
PX == 2

\* uuidv4() for nodes: the n-th node created gets the n-th identifier
NodeIdTable == <<"g1", "g2", "g3", "g4", "g5", "g6">>

\* canvas positions offered to node creation and dragging
Positions == { [x |-> 0, y |-> 0], [x |-> 100 * PX, y |-> 0], [x |-> 0, y |-> 50 * PX] }

\* where the order of groups is left to the edges, every group is dropped at
\* the same spot (the order of equal positions is the order of creation)
SlotPositions == { [x |-> 0, y |-> 0] }

(***************************************************************************)
(* JavaScript string primitives used by the column code                    *)
(***************************************************************************)
Digit == <<"0", "1", "2", "3", "4", "5", "6", "7", "8", "9">>

IsDigit(c) == \E d \in 1..10 : Digit[d] = c

DigitVal(c) == (CHOOSE d \in 1..10 : Digit[d] = c) - 1

\* decimal rendering of a non-negative integer inside a template literal
RECURSIVE ToDigits(_)
ToDigits(n) ==
  IF n < 10 THEN <<Digit[n + 1]>>
  ELSE ToDigits(n \div 10) \o <<Digit[(n % 10) + 1]>>

RECURSIVE TrimLeft(_)
TrimLeft(s) ==
  IF Len(s) > 0 /\ Head(s) = " " THEN TrimLeft(Tail(s)) ELSE s

RECURSIVE TrimRight(_)
TrimRight(s) ==
  IF Len(s) > 0 /\ s[Len(s)] = " " THEN TrimRight(SubSeq(s, 1, Len(s) - 1)) ELSE s

trim(s) == TrimRight(TrimLeft(s))

UpperChar(c) ==
  IF c = "m" THEN "M" ELSE IF c = "t" THEN "T" ELSE IF c = "x" THEN "X" ELSE c

RECURSIVE toUpperCase(_)
toUpperCase(s) ==
  IF Len(s) = 0 THEN <<>> ELSE <<UpperChar(Head(s))>> \o toUpperCase(Tail(s))

(***************************************************************************)
(* supabaseColumnMapping                                                   *)
(***************************************************************************)
isTimeBubble(type) == type = "time"

isVisualOnlyBubble(type) == type = "note"

getColumnKindForBubble(type) == IF isTimeBubble(type) THEN "T" ELSE "M"

buildColumn(kind, index) == <<kind>> \o ToDigits(index)

\* /^([MT])(\d{1,2})$/ on the trimmed, upper-cased string, index in 1..50
parseColumn(col) ==
  LET s == toUpperCase(trim(col))
      n == Len(s)
      matches == /\ n \in 2..3
                 /\ s[1] \in {"M", "T"}
                 /\ \A i \in 2..n : IsDigit(s[i])
      index == IF n = 2 THEN DigitVal(s[2])
               ELSE 10 * DigitVal(s[2]) + DigitVal(s[3])
  IN  IF ~matches THEN NULL
      ELSE IF index < 1 \/ index > COLUMN_LIMIT THEN NULL
      ELSE [kind |-> s[1], index |-> index]

RECURSIVE FlattenBubbles(_)
FlattenBubbles(ns) ==
  IF ns = <<>> THEN <<>>
  ELSE (IF Head(ns).type = "group" THEN Head(ns).bubbles ELSE <<>>)
       \o FlattenBubbles(Tail(ns))

getAllBubblesFromFlowNodes(ns) == FlattenBubbles(ns)

getUsedColumns(bubbles, kind) ==
  { buildColumn(kind, parseColumn(bubbles[i].supabaseColumn).index) :
      i \in { j \in 1..Len(bubbles) :
                /\ getColumnKindForBubble(bubbles[j].type) = kind
                /\ Len(bubbles[j].supabaseColumn) > 0
                /\ parseColumn(bubbles[j].supabaseColumn) # NULL
                /\ parseColumn(bubbles[j].supabaseColumn).kind = kind } }

\* the first free column of the kind, or the empty string for null
suggestNextAvailableColumn(bubbles, kind) ==
  LET used == getUsedColumns(bubbles, kind)
      free == { i \in 1..COLUMN_LIMIT : buildColumn(kind, i) \notin used }
  IN  IF free = {} THEN <<>>
      ELSE buildColumn(kind, CHOOSE i \in free : \A j \in free : i <= j)

\* Map<string,string> built by successive set(id, col): the last set wins
UpdatesFromPairs(pairs) ==
  [id \in { pairs[i].id : i \in 1..Len(pairs) } |->
     pairs[CHOOSE i \in 1..Len(pairs) :
             /\ pairs[i].id = id
             /\ \A j \in 1..Len(pairs) : pairs[j].id = id => j <= i].col]

\* the map of shifted columns; the empty map stands for the null result
reorganizeColumnsAfterDeletion(ns, deletedColumn) ==
  LET deletedParsed == parseColumn(deletedColumn)
      allBubbles == getAllBubblesFromFlowNodes(ns)
      shifted(b) ==
        /\ Len(b.supabaseColumn) > 0
        /\ parseColumn(b.supabaseColumn) # NULL
        /\ parseColumn(b.supabaseColumn).kind = deletedParsed.kind
        /\ parseColumn(b.supabaseColumn).index > deletedParsed.index
      hits == SelectSeq(allBubbles, shifted)
      pairs == [i \in 1..Len(hits) |->
                  [id |-> hits[i].id,
                   col |-> buildColumn(deletedParsed.kind,
                                       parseColumn(hits[i].supabaseColumn).index - 1)]]
  IN  IF deletedParsed = NULL THEN NoUpdates ELSE UpdatesFromPairs(pairs)

\* the Map nodeId -> node: keys in first-insertion order, the last value set
NodeMap(ns) ==
  LET firsts == SelectSeq([i \in 1..Len(ns) |-> i],
                          LAMBDA i : \A j \in 1..(i - 1) : ns[j].id # ns[i].id)
      lastOf(id) == CHOOSE i \in 1..Len(ns) :
                      /\ ns[i].id = id
                      /\ \A j \in 1..Len(ns) : ns[j].id = id => j <= i
  IN  [k \in 1..Len(firsts) |-> ns[lastOf(ns[firsts[k]].id)]]

SlottedBubbles(node) ==
  SelectSeq(node.bubbles, LAMBDA b : ~isVisualOnlyBubble(b.type))

\* first loop: the groups named by groupOrder, each taken out of the map once
RECURSIVE CollectInGroupOrder(_, _, _)
CollectInGroupOrder(nodeMap, groupOrder, processed) ==
  IF groupOrder = <<>> THEN <<>>
  ELSE LET groupId == Head(groupOrder)
           found == { k \in 1..Len(nodeMap) :
                        nodeMap[k].id = groupId /\ groupId \notin processed }
           node == nodeMap[CHOOSE k \in found : TRUE]
       IN  IF found = {} \/ node.type # "group"
           THEN CollectInGroupOrder(nodeMap, Tail(groupOrder), processed)
           ELSE SlottedBubbles(node)
                \o CollectInGroupOrder(nodeMap, Tail(groupOrder),
                                       processed \cup {groupId})

\* second loop: the groups left in the map, in map order
RECURSIVE CollectRemaining(_, _)
CollectRemaining(nodeMap, processed) ==
  IF nodeMap = <<>> THEN <<>>
  ELSE (IF Head(nodeMap).type = "group" /\ Head(nodeMap).id \notin processed
        THEN SlottedBubbles(Head(nodeMap)) ELSE <<>>)
       \o CollectRemaining(Tail(nodeMap), processed)

\* the ids of groupOrder whose node the first loop deleted from the map
ProcessedGroups(nodeMap, groupOrder) ==
  { groupOrder[i] : i \in { j \in 1..Len(groupOrder) :
      \E k \in 1..Len(nodeMap) :
        nodeMap[k].id = groupOrder[j] /\ nodeMap[k].type = "group" } }

\* a single counter shared by the two letters
RECURSIVE AssignSharedCounter(_, _, _)
AssignSharedCounter(bs, mCounter, tCounter) ==
  IF bs = <<>> THEN <<>>
  ELSE IF getColumnKindForBubble(Head(bs).type) = "M"
       THEN <<[bubble |-> Head(bs),
               nextColumn |-> buildColumn("M", mCounter + tCounter + 1)]>>
            \o AssignSharedCounter(Tail(bs), mCounter + 1, tCounter)
       ELSE <<[bubble |-> Head(bs),
               nextColumn |-> buildColumn("T", mCounter + tCounter + 1)]>>
            \o AssignSharedCounter(Tail(bs), mCounter, tCounter + 1)

\* the two counters: the column each bubble of the traversal is due
RECURSIVE AssignCounters(_, _, _)
AssignCounters(bs, mCounter, tCounter) ==
  IF bs = <<>> THEN <<>>
  ELSE IF getColumnKindForBubble(Head(bs).type) = "M"
       THEN <<[bubble |-> Head(bs), nextColumn |-> buildColumn("M", mCounter + 1)]>>
            \o AssignCounters(Tail(bs), mCounter + 1, tCounter)
       ELSE <<[bubble |-> Head(bs), nextColumn |-> buildColumn("T", tCounter + 1)]>>
            \o AssignCounters(Tail(bs), mCounter, tCounter + 1)

\* parse of the trimmed upper-cased column, rebuilt; <<>> stands for null
currentNormalized(col) ==
  LET current == toUpperCase(trim(col))
      currentParsed == IF Len(current) > 0 THEN parseColumn(current) ELSE NULL
  IN  IF currentParsed # NULL
      THEN buildColumn(currentParsed.kind, currentParsed.index)
      ELSE <<>>

\* a normalization that fills in only the columns that are missing or invalid
normalizeMissingColumnsOnly(ns, groupOrder) ==
  LET nodeMap == NodeMap(ns)
      allBubblesInOrder ==
        CollectInGroupOrder(nodeMap, groupOrder, {})
        \o CollectRemaining(nodeMap, ProcessedGroups(nodeMap, groupOrder))
      due == AssignCounters(allBubblesInOrder, 0, 0)
      changed == SelectSeq(due,
                   LAMBDA d : currentNormalized(d.bubble.supabaseColumn) = <<>>)
  IN  UpdatesFromPairs([i \in 1..Len(changed) |->
                          [id |-> changed[i].bubble.id, col |-> changed[i].nextColumn]])

\* the map of changed columns; the empty map stands for the null result
normalizeColumnsWithGroupOrder(ns, groupOrder) ==
  LET nodeMap == NodeMap(ns)
      allBubblesInOrder ==
        CollectInGroupOrder(nodeMap, groupOrder, {})
        \o CollectRemaining(nodeMap, ProcessedGroups(nodeMap, groupOrder))
      due == AssignCounters(allBubblesInOrder, 0, 0)
      changed == SelectSeq(due,
                   LAMBDA d : currentNormalized(d.bubble.supabaseColumn) # d.nextColumn)
  IN  UpdatesFromPairs([i \in 1..Len(changed) |->
                          [id |-> changed[i].bubble.id, col |-> changed[i].nextColumn]])

\* nodes.map(...) writing the updated columns into the bubbles of every group
ApplyColumnUpdates(ns, updates) ==
  [i \in 1..Len(ns) |->
     IF ns[i].type # "group" THEN ns[i]
     ELSE [ns[i] EXCEPT !.bubbles =
             [k \in 1..Len(ns[i].bubbles) |->
                IF ns[i].bubbles[k].id \in DOMAIN updates
                THEN [ns[i].bubbles[k] EXCEPT !.supabaseColumn =
                                                 updates[ns[i].bubbles[k].id]]
                ELSE ns[i].bubbles[k]]]]

(***************************************************************************)
(* useGroupOrder                                                           *)
(***************************************************************************)
\* source -> targets[], in edge order
buildAdjacencyMap(es) ==
  [src \in { es[i].source : i \in 1..Len(es) } |->
     LET from == SelectSeq(es, LAMBDA e : e.source = src)
     IN  [k \in 1..Len(from) |-> from[k].target]]

AdjGet(adj, id) == IF id \in DOMAIN adj THEN adj[id] ELSE <<>>

\* nodePositions.get(id) || { x: 0, y: 0 }
PositionOf(nodePositions, id) ==
  IF id \in DOMAIN nodePositions THEN nodePositions[id] ELSE [x |-> 0, y |-> 0]

\* a comparator with the axes exchanged: y first, then x
ComparesBeforeByRow(a, b, nodePositions) ==
  LET posA == PositionOf(nodePositions, a)
      posB == PositionOf(nodePositions, b)
  IN  IF posA.y # posB.y THEN posA.y - posB.y < 0 ELSE posA.x - posB.x < 0

\* the comparator is negative: a sorts before b
ComparesBefore(a, b, nodePositions) ==
  LET posA == PositionOf(nodePositions, a)
      posB == PositionOf(nodePositions, b)
  IN  IF posA.x # posB.x THEN posA.x - posB.x < 0 ELSE posA.y - posB.y < 0

\* Array.prototype.sort is stable: equal elements keep their order
RECURSIVE InsertByPosition(_, _, _)
InsertByPosition(sorted, a, nodePositions) ==
  IF sorted = <<>> THEN <<a>>
  ELSE IF ComparesBefore(a, Head(sorted), nodePositions)
       THEN <<a>> \o sorted
       ELSE <<Head(sorted)>> \o InsertByPosition(Tail(sorted), a, nodePositions)

RECURSIVE SortFrom(_, _, _)
SortFrom(sorted, ids, nodePositions) ==
  IF ids = <<>> THEN sorted
  ELSE SortFrom(InsertByPosition(sorted, Head(ids), nodePositions),
                Tail(ids), nodePositions)

sortByPosition(ids, nodePositions) == SortFrom(<<>>, ids, nodePositions)

\* the groups as they come, not sorted
groupsInListOrder(groupIds, nodePositions) == groupIds

sortByCanvasPosition(groupIds, nodePositions) == SortFrom(<<>>, groupIds, nodePositions)

\* for (target of sorted) if (groupIds.has(target) && !visited.has(target)) push
RECURSIVE EnqueueTargets(_, _, _, _)
EnqueueTargets(targets, groupIdSet, queue, visited) ==
  IF targets = <<>> THEN [queue |-> queue, visited |-> visited]
  ELSE IF Head(targets) \in groupIdSet /\ Head(targets) \notin visited
       THEN EnqueueTargets(Tail(targets), groupIdSet,
                           Append(queue, Head(targets)),
                           visited \cup {Head(targets)})
       ELSE EnqueueTargets(Tail(targets), groupIdSet, queue, visited)

\* a traversal that takes the newest entry of the queue instead of the oldest
RECURSIVE ProcessNewestFirst(_, _, _, _, _, _)
ProcessNewestFirst(queue, visited, result, adj, groupIdSet, nodePositions) ==
  IF queue = <<>> THEN [result |-> result, visited |-> visited]
  ELSE LET current == queue[Len(queue)]
           next == EnqueueTargets(sortByPosition(AdjGet(adj, current), nodePositions),
                                  groupIdSet, SubSeq(queue, 1, Len(queue) - 1), visited)
       IN  ProcessNewestFirst(next.queue, next.visited, Append(result, current),
                              adj, groupIdSet, nodePositions)

\* while (queue.length > 0): shift, push to result, enqueue the sorted targets
RECURSIVE ProcessQueue(_, _, _, _, _, _)
ProcessQueue(queue, visited, result, adj, groupIdSet, nodePositions) ==
  IF queue = <<>> THEN [result |-> result, visited |-> visited]
  ELSE LET current == Head(queue)
           next == EnqueueTargets(sortByPosition(AdjGet(adj, current), nodePositions),
                                  groupIdSet, Tail(queue), visited)
       IN  ProcessQueue(next.queue, next.visited, Append(result, current),
                        adj, groupIdSet, nodePositions)

\* a traversal that stops at the groups it reached
topologicalSortWithoutIslands(startNodeId, groupIds, es, nodePositions) ==
  LET adj == buildAdjacencyMap(es)
      groupIdSet == { groupIds[i] : i \in 1..Len(groupIds) }
      fromStart == AdjGet(adj, startNodeId)
      initial == EnqueueTargets(sortByPosition(fromStart, nodePositions),
                                groupIdSet, <<>>, {})
      walked == ProcessQueue(initial.queue, initial.visited, <<>>,
                             adj, groupIdSet, nodePositions)
  IN  walked.result

topologicalSortFromStart(startNodeId, groupIds, es, nodePositions) ==
  LET adj == buildAdjacencyMap(es)
      groupIdSet == { groupIds[i] : i \in 1..Len(groupIds) }
      fromStart == AdjGet(adj, startNodeId)
      initial == EnqueueTargets(sortByPosition(fromStart, nodePositions),
                                groupIdSet, <<>>, {})
      walked == ProcessQueue(initial.queue, initial.visited, <<>>,
                             adj, groupIdSet, nodePositions)
      remaining == SelectSeq(groupIds, LAMBDA id : id \notin walked.visited)
  IN  walked.result \o sortByPosition(remaining, nodePositions)

\* new Set(ids): the distinct ids in first-insertion order
RECURSIVE DistinctIds(_, _)
DistinctIds(ids, seen) ==
  IF ids = <<>> THEN <<>>
  ELSE IF Head(ids) \in seen THEN DistinctIds(Tail(ids), seen)
       ELSE <<Head(ids)>> \o DistinctIds(Tail(ids), seen \cup {Head(ids)})

calculateGroupOrder(ns, es) ==
  LET groupNodes == SelectSeq(ns, LAMBDA n : n.type = "group")
      groupIds == DistinctIds([i \in 1..Len(groupNodes) |-> groupNodes[i].id], {})
      groupIdSet == { groupIds[i] : i \in 1..Len(groupIds) }
      nodePositions ==
        [id \in groupIdSet |->
           groupNodes[CHOOSE i \in 1..Len(groupNodes) :
                        /\ groupNodes[i].id = id
                        /\ \A j \in 1..Len(groupNodes) :
                             groupNodes[j].id = id => j <= i].position]
      groupEdges == SelectSeq(es, LAMBDA e : e.source \in groupIdSet /\ e.target \in groupIdSet)
      startEdges == SelectSeq(es, LAMBDA e : e.source = StartNodeId /\ e.target \in groupIdSet)
      orderedGroupIds ==
        IF Len(groupEdges) > 0 \/ Len(startEdges) > 0
        THEN topologicalSortFromStart(StartNodeId, groupIds, es, nodePositions)
        ELSE sortByCanvasPosition(groupIds, nodePositions)
  IN  IF Len(groupNodes) = 0 THEN <<>>
      ELSE [index \in 1..Len(orderedGroupIds) |->
              [groupId |-> orderedGroupIds[index],
               orderTag |-> <<"G">> \o ToDigits((index - 1) + 1),
               orderIndex |-> index - 1]]

(***************************************************************************)
(* JSON values, and the texts of the POSICAO and BLK columns               *)
(***************************************************************************)
\* A JSON value carries its type.  Numbers are whole numbers; a string is a
\* sequence of characters, except the identifiers of nodes, which stay the
\* atoms they are in the flow; the members of an object are a function from
\* keys to values.
JUndefined == [t |-> "undefined"]
JNull == [t |-> "null"]
JNum(n) == [t |-> "num", n |-> n]
JStr(s) == [t |-> "str", s |-> s]
JId(id) == [t |-> "str", id |-> id]
JArr(a) == [t |-> "arr", a |-> a]
JObj(o) == [t |-> "obj", o |-> o]

\* object[key], undefined for a member that is not there; the keys of the
\* model never name a member of a value that is not an object
Member(value, key) ==
  IF value.t = "obj" /\ key \in DOMAIN value.o THEN value.o[key] ELSE JUndefined

\* what `!value` takes for false
Falsy(value) ==
  \/ value.t \in {"undefined", "null"}
  \/ value.t = "num" /\ value.n = 0
  \/ value.t = "str" /\ "s" \in DOMAIN value /\ value.s = <<>>
  \/ value.t = "bool" /\ ~value.b

\* value === n
IsNumber(value, n) == value.t = "num" /\ value.n = n

\* Array.isArray(value) && value.length >= n
ArrayOfAtLeast(value, n) == value.t = "arr" /\ Len(value.a) >= n

\* A text is the rendering of a JSON value (what JSON.stringify returns and
\* JSON.parse reads back), or a sequence of characters that is no JSON, or
\* the null of an empty database cell.
JsonText(value) == [form |-> "json", chars |-> <<>>, value |-> value]
PlainText(chars) == [form |-> "plain", chars |-> chars, value |-> JNull]
NullText == [form |-> "null", chars |-> <<>>, value |-> JNull]

\* JSON.parse: the value of a JSON text; anything else throws
JSONparse(text) ==
  IF text.form = "json" THEN [threw |-> FALSE, value |-> text.value]
  ELSE [threw |-> TRUE, value |-> JUndefined]

\* !text || typeof text !== "string"
NoText(text) == text.form = "null" \/ (text.form = "plain" /\ text.chars = <<>>)

\* text.trim().startsWith(prefix); the rendering of an object, and of no
\* other value, starts with a brace
StartsWith(s, prefix) ==
  Len(s) >= Len(prefix) /\ SubSeq(s, 1, Len(prefix)) = prefix

TrimmedStartsWith(text, prefix) ==
  IF text.form = "json" THEN prefix = <<"{">> /\ text.value.t = "obj"
  ELSE StartsWith(trim(text.chars), prefix)

(***************************************************************************)
(* posicaoEncoding: the snapshot of the canvas                             *)
(***************************************************************************)
\* Math.floor of a coordinate
MathFloor(n) == n \div PX

\* Math.round of a coordinate: the nearest whole number, halves upwards
MathRound(n) == (2 * n + PX) \div (2 * PX)

\* the coordinate that is the whole number n
Whole(n) == n * PX

DefaultTitle == <<"G", "r", "o", "u", "p">>

\* bubbles.map(b => b.data.supabaseColumn?.toUpperCase()).filter(col => !!col)
ColumnsOf(bubbles) ==
  LET held == SelectSeq(bubbles, LAMBDA b : b.supabaseColumn # <<>>)
  IN  [k \in 1..Len(held) |-> JStr(toUpperCase(held[k].supabaseColumn))]

GroupEntry(node) ==
  JArr(<< JNum(MathRound(node.position.x)),
          JNum(MathRound(node.position.y)),
          JStr(IF node.label = <<>> THEN DefaultTitle ELSE node.label),
          JArr(ColumnsOf(node.bubbles)) >>)

\* the edges that join groups, the start node left out
EdgesBetweenGroups(es, groupIds) ==
  SelectSeq(es, LAMBDA e : e.source \in groupIds /\ e.target \in groupIds)

\* edges.filter(e => validNodeIds.has(e.source) && validNodeIds.has(e.target)),
\* validNodeIds being "start-node" and the ids of the groups
ValidEdges(es, groupIds) ==
  LET validNodeIds == {StartNodeId} \cup groupIds
  IN  SelectSeq(es, LAMBDA e : e.source \in validNodeIds /\ e.target \in validNodeIds)

\* the document for the nodes taken as groups and the nodes taken as start
\* node: "" without groups; otherwise the version, the start node's
\* position, the groups in the order of the node list, each group's rounded
\* position, title and upper-cased columns under its id, and the edges that
\* join the start node and groups
PosicaoOf(groupNodes, startNodes, es) ==
  LET ids == { groupNodes[i].id : i \in 1..Len(groupNodes) }
      g == [id \in ids |->
              GroupEntry(groupNodes[CHOOSE i \in 1..Len(groupNodes) :
                           /\ groupNodes[i].id = id
                           /\ \A j \in 1..Len(groupNodes) :
                                groupNodes[j].id = id => j <= i])]
      validEdges == ValidEdges(es, ids)
      go == JArr([i \in 1..Len(groupNodes) |-> JId(groupNodes[i].id)])
      e == JArr([k \in 1..Len(validEdges) |->
                   JArr(<< JId(validEdges[k].source), JId(validEdges[k].target) >>)])
  IN  IF groupNodes = <<>> THEN PlainText(<<>>)
      ELSE IF startNodes = <<>>
      THEN JsonText(JObj([v |-> JNum(2), go |-> go, g |-> JObj(g), e |-> e]))
      ELSE JsonText(JObj([v |-> JNum(2), go |-> go, g |-> JObj(g), e |-> e,
                          sn |-> JArr(<< JNum(MathRound(startNodes[1].position.x)),
                                         JNum(MathRound(startNodes[1].position.y)) >>)]))

\* the document that takes the note nodes for groups as well
encodePosicaoV2WithNotes(ns, es) ==
  PosicaoOf(SelectSeq(ns, LAMBDA n : n.type \in {"group", "note"}),
            SelectSeq(ns, LAMBDA n : n.type = "start"), es)

\* encodePosicaoV2(nodes, edges), called without a viewport: the document
\* of the group nodes and the start node; the note nodes are not in it
encodePosicaoV2(ns, es) ==
  PosicaoOf(SelectSeq(ns, LAMBDA n : n.type = "group"),
            SelectSeq(ns, LAMBDA n : n.type = "start"), es)

\* parsePosicaoV2: the groups named by `go` that `g` describes by an array of
\* four or more, in the order of `go`; the edges that are arrays of two or
\* more; nothing is checked beyond that
ParsedGroupsV2(data) ==
  LET go == Member(data, "go")
      described == IF go.t # "arr" THEN <<>>
                   ELSE SelectSeq(go.a, LAMBDA groupId :
                          /\ "id" \in DOMAIN groupId
                          /\ ArrayOfAtLeast(Member(Member(data, "g"), groupId.id), 4))
  IN  [i \in 1..Len(described) |->
         LET groupData == Member(Member(data, "g"), described[i].id).a
         IN  [groupId |-> described[i], x |-> groupData[1], y |-> groupData[2],
              title |-> groupData[3],
              columns |-> IF Falsy(groupData[4]) THEN JArr(<<>>) ELSE groupData[4]]]

ParsedEdgesV2(data) ==
  LET e == Member(data, "e")
      pairs == IF e.t # "arr" THEN <<>>
               ELSE SelectSeq(e.a, LAMBDA edge : ArrayOfAtLeast(edge, 2))
  IN  [k \in 1..Len(pairs) |-> [source |-> pairs[k].a[1], target |-> pairs[k].a[2]]]

parsePosicaoV2(data) ==
  [version |-> 2,
   startNodePosition |->
     IF ArrayOfAtLeast(Member(data, "sn"), 2)
     THEN << Member(data, "sn").a[1], Member(data, "sn").a[2] >> ELSE <<>>,
   viewport |->
     IF ArrayOfAtLeast(Member(data, "vp"), 3)
     THEN SubSeq(Member(data, "vp").a, 1, 3) ELSE <<>>,
   groups |-> ParsedGroupsV2(data),
   edges |-> ParsedEdgesV2(data)]

(***************************************************************************)
(* The legacy snapshot: v1|g:Title@x,y{M1,M2};g:...                        *)
(***************************************************************************)
\* s.indexOf(c) and s.lastIndexOf(c), counted from 1; 0 when c is not in s
IndexOf(s, c) ==
  IF \E i \in 1..Len(s) : s[i] = c
  THEN CHOOSE i \in 1..Len(s) : s[i] = c /\ \A j \in 1..(i - 1) : s[j] # c
  ELSE 0

LastIndexOf(s, c) ==
  IF \E i \in 1..Len(s) : s[i] = c
  THEN CHOOSE i \in 1..Len(s) : s[i] = c /\ \A j \in (i + 1)..Len(s) : s[j] # c
  ELSE 0

\* s.split(c)
RECURSIVE Split(_, _)
Split(s, c) ==
  IF IndexOf(s, c) = 0 THEN <<s>>
  ELSE <<SubSeq(s, 1, IndexOf(s, c) - 1)>> \o Split(SubSeq(s, IndexOf(s, c) + 1, Len(s)), c)

\* the digits at the head of s, as a number
RECURSIVE DigitsValue(_, _)
DigitsValue(s, acc) ==
  IF Len(s) > 0 /\ IsDigit(Head(s)) THEN DigitsValue(Tail(s), 10 * acc + DigitVal(Head(s)))
  ELSE acc

\* parseInt(s, 10): blanks, a sign, then digits up to the first character
\* that is none; undefined stands for NaN (`if (isNaN(x)) x = undefined`)
parseInt(s) ==
  LET t == TrimLeft(s)
      signed == Len(t) > 0 /\ Head(t) \in {"-", "+"}
      digits == IF signed THEN Tail(t) ELSE t
  IN  IF Len(digits) = 0 \/ ~IsDigit(Head(digits)) THEN JUndefined
      ELSE IF signed /\ Head(t) = "-" THEN JNum(0 - DigitsValue(digits, 0))
      ELSE JNum(DigitsValue(digits, 0))

\* columnsPart.split(",").map(c => c.trim().toUpperCase()).filter(Boolean)
ParseColumnsPart(columnsPart) ==
  LET parts == Split(columnsPart, ",")
      names == [k \in 1..Len(parts) |-> toUpperCase(trim(parts[k]))]
  IN  SelectSeq(names, LAMBDA c : c # <<>>)

\* const [xStr, yStr] = coordPart.split(","); parseInt of each
ParseCoordPart(coordPart) ==
  LET parts == Split(coordPart, ",")
  IN  [x |-> parseInt(parts[1]),
       y |-> IF Len(parts) >= 2 THEN parseInt(parts[2]) ELSE JUndefined]

EtapasTitle == <<"E", "t", "a", "p", "a", "s">>

\* the entry read with the coordinates in the order y,x
parseGroupStringSwapped(str) ==
  LET afterG == SubSeq(str, 3, Len(str))
      atIndex == IndexOf(afterG, "@")
      braceStart == IndexOf(afterG, "{")
      braceEnd == LastIndexOf(afterG, "}")
      columns == IF braceStart # 0 /\ braceEnd > braceStart
                 THEN ParseColumnsPart(SubSeq(afterG, braceStart + 1, braceEnd - 1))
                 ELSE <<>>
      label == IF atIndex = 0 /\ braceStart = 0 THEN afterG
               ELSE IF atIndex # 0 THEN SubSeq(afterG, 1, atIndex - 1)
               ELSE SubSeq(afterG, 1, braceStart - 1)
      coords == IF atIndex = 0 THEN [x |-> JUndefined, y |-> JUndefined]
                ELSE IF braceStart # 0
                THEN ParseCoordPart(SubSeq(afterG, atIndex + 1, braceStart - 1))
                ELSE ParseCoordPart(SubSeq(afterG, atIndex + 1, Len(afterG)))
  IN  IF ~StartsWith(str, <<"g", ":">>) THEN <<>>
      ELSE << [label |-> IF label = <<>> THEN DefaultTitle ELSE label,
               x |-> coords.y, y |-> coords.x, bubbleColumns |-> columns] >>

\* parseGroupString: the entry g:Label@x,y{columns}, with or without the
\* coordinates and the columns; <<>> stands for null, <<group>> for a group
parseGroupString(str) ==
  LET afterG == SubSeq(str, 3, Len(str))
      atIndex == IndexOf(afterG, "@")
      braceStart == IndexOf(afterG, "{")
      braceEnd == LastIndexOf(afterG, "}")
      columns == IF braceStart # 0 /\ braceEnd > braceStart
                 THEN ParseColumnsPart(SubSeq(afterG, braceStart + 1, braceEnd - 1))
                 ELSE <<>>
      label == IF atIndex = 0 /\ braceStart = 0 THEN afterG
               ELSE IF atIndex # 0 THEN SubSeq(afterG, 1, atIndex - 1)
               ELSE SubSeq(afterG, 1, braceStart - 1)
      coords == IF atIndex = 0 THEN [x |-> JUndefined, y |-> JUndefined]
                ELSE IF braceStart # 0
                THEN ParseCoordPart(SubSeq(afterG, atIndex + 1, braceStart - 1))
                ELSE ParseCoordPart(SubSeq(afterG, atIndex + 1, Len(afterG)))
  IN  IF ~StartsWith(str, <<"g", ":">>) THEN <<>>
      ELSE << [label |-> IF label = <<>> THEN DefaultTitle ELSE label,
               x |-> coords.x, y |-> coords.y, bubbleColumns |-> columns] >>

RECURSIVE ParseGroupStrings(_)
ParseGroupStrings(groupStrings) ==
  IF groupStrings = <<>> THEN <<>>
  ELSE parseGroupString(trim(Head(groupStrings))) \o ParseGroupStrings(Tail(groupStrings))

\* parsePosicao of a text that is no JSON: the groups of the entries between
\* ";" that parse; <<>> stands for null
parsePosicao(chars) ==
  LET trimmed == trim(chars)
      content == SubSeq(trimmed, 4, Len(trimmed))
      groupStrings == SelectSeq(Split(content, ";"), LAMBDA s : trim(s) # <<>>)
  IN  IF ~StartsWith(trimmed, <<"v", "1", "|">>) \/ content = <<>> THEN <<>>
      ELSE ParseGroupStrings(groupStrings)

(***************************************************************************)
(* parsePosicaoAuto and isPosicaoV2                                        *)
(***************************************************************************)
NoLayout == [kind |-> "null", threw |-> FALSE, v2 |-> <<>>, v1 |-> <<>>]

\* parsePosicaoAuto: null for no text; the current format for a text that
\* starts with a brace, parses as JSON and has v = 2 (whatever JSON.parse
\* throws is caught); the legacy format for a text that starts with v1|;
\* null otherwise
parsePosicaoAuto(posicao) ==
  IF NoText(posicao) THEN NoLayout
  ELSE IF /\ TrimmedStartsWith(posicao, <<"{">>)
          /\ ~JSONparse(posicao).threw
          /\ IsNumber(Member(JSONparse(posicao).value, "v"), 2)
  THEN [kind |-> "v2", threw |-> FALSE,
        v2 |-> <<parsePosicaoV2(JSONparse(posicao).value)>>, v1 |-> <<>>]
  ELSE IF posicao.form = "plain" /\ parsePosicao(posicao.chars) # <<>>
  THEN [kind |-> "v1", threw |-> FALSE, v2 |-> <<>>, v1 |-> parsePosicao(posicao.chars)]
  ELSE NoLayout

isPosicaoV2(posicao) ==
  /\ ~NoText(posicao)
  /\ TrimmedStartsWith(posicao, <<"{">>)
  /\ ~JSONparse(posicao).threw
  /\ IsNumber(Member(JSONparse(posicao).value, "v"), 2)

(***************************************************************************)
(* Distribution of the fetched bubbles over the groups of a snapshot       *)
(***************************************************************************)
\* b.data.supabaseColumn?.toUpperCase()
UpperColumn(b) == toUpperCase(b.supabaseColumn)

\* bubbleByColumn: for every column, the last bubble that holds it
BubbleByColumn(bubbles) ==
  [col \in { UpperColumn(bubbles[i]) : i \in { j \in 1..Len(bubbles) :
                                               bubbles[j].supabaseColumn # <<>> } } |->
     bubbles[CHOOSE i \in 1..Len(bubbles) :
               /\ UpperColumn(bubbles[i]) = col
               /\ \A j \in 1..Len(bubbles) : UpperColumn(bubbles[j]) = col => j <= i]]

\* for (const col of columns): the members of an array, the characters of a
\* string; any other value is not iterable and the loop throws
Iterable(columns) == columns.t = "arr" \/ (columns.t = "str" /\ "s" \in DOMAIN columns)

Iterate(columns) ==
  IF columns.t = "arr" THEN columns.a
  ELSE IF Iterable(columns) THEN [k \in 1..Len(columns.s) |-> JStr(<<columns.s[k]>>)]
  ELSE <<>>

\* the recorded columns that a fetched bubble holds, the last recorded first
FoundColumnsReversed(columns, byColumn) ==
  LET names == SelectSeq(Iterate(columns),
                         LAMBDA c : c.t = "str" /\ "s" \in DOMAIN c /\ c.s \in DOMAIN byColumn)
  IN  [k \in 1..Len(names) |-> names[Len(names) + 1 - k].s]

\* the recorded columns that a fetched bubble holds, in the recorded order
FoundColumns(columns, byColumn) ==
  LET names == SelectSeq(Iterate(columns),
                         LAMBDA c : c.t = "str" /\ "s" \in DOMAIN c /\ c.s \in DOMAIN byColumn)
  IN  [k \in 1..Len(names) |-> names[k].s]

\* bubbles whose column no group took
Unassigned(bubbles, assignedColumns) ==
  SelectSeq(bubbles, LAMBDA b : /\ b.supabaseColumn # <<>>
                                /\ UpperColumn(b) \notin assignedColumns)

FallbackGroupId == "fallback"

\* the distribution that hands the unassigned bubbles to the first group
distributeV2IntoFirstGroup(bubbles, layout) ==
  LET byColumn == BubbleByColumn(bubbles)
      found(i) == FoundColumns(layout.groups[i].columns, byColumn)
      assigned == UNION { { found(i)[k] : k \in 1..Len(found(i)) } :
                          i \in 1..Len(layout.groups) }
      unassigned == Unassigned(bubbles, assigned)
      groups == [i \in 1..Len(layout.groups) |->
                   [groupId |-> layout.groups[i].groupId,
                    x |-> layout.groups[i].x, y |-> layout.groups[i].y,
                    title |-> layout.groups[i].title,
                    bubbles |-> [k \in 1..Len(found(i)) |-> byColumn[found(i)[k]]]
                                  \o (IF i = 1 THEN unassigned ELSE <<>>)]]
  IN  IF \E i \in 1..Len(layout.groups) : ~Iterable(layout.groups[i].columns)
      THEN [threw |-> TRUE, groups |-> <<>>]
      ELSE IF unassigned # <<>> /\ layout.groups = <<>>
      THEN [threw |-> FALSE,
            groups |-> << [groupId |-> JId(FallbackGroupId), x |-> JNum(250), y |-> JNum(50),
                           title |-> JStr(EtapasTitle), bubbles |-> unassigned] >>]
      ELSE [threw |-> FALSE, groups |-> groups]

\* distributeBubblesByPosicaoV2: every group of the layout, in its order,
\* with the bubbles found for its columns, in their order; the bubbles whose
\* column no group took go to the last group, or to a group made for them
distributeBubblesByPosicaoV2(bubbles, layout) ==
  LET byColumn == BubbleByColumn(bubbles)
      found(i) == FoundColumns(layout.groups[i].columns, byColumn)
      assigned == UNION { { found(i)[k] : k \in 1..Len(found(i)) } :
                          i \in 1..Len(layout.groups) }
      unassigned == Unassigned(bubbles, assigned)
      groups == [i \in 1..Len(layout.groups) |->
                   [groupId |-> layout.groups[i].groupId,
                    x |-> layout.groups[i].x, y |-> layout.groups[i].y,
                    title |-> layout.groups[i].title,
                    bubbles |-> [k \in 1..Len(found(i)) |-> byColumn[found(i)[k]]]
                                  \o (IF i = Len(layout.groups) THEN unassigned ELSE <<>>)]]
  IN  IF \E i \in 1..Len(layout.groups) : ~Iterable(layout.groups[i].columns)
      THEN [threw |-> TRUE, groups |-> <<>>]
      ELSE IF unassigned # <<>> /\ layout.groups = <<>>
      THEN [threw |-> FALSE,
            groups |-> << [groupId |-> JId(FallbackGroupId), x |-> JNum(250), y |-> JNum(50),
                           title |-> JStr(EtapasTitle), bubbles |-> unassigned] >>]
      ELSE [threw |-> FALSE, groups |-> groups]

\* distributeBubblesByPosicao (legacy): as above, over column names, but the
\* bubbles whose column no group took go to the first group
distributeBubblesByPosicao(bubbles, posicaoGroups) ==
  LET byColumn == BubbleByColumn(bubbles)
      found(i) == SelectSeq(posicaoGroups[i].bubbleColumns, LAMBDA c : c \in DOMAIN byColumn)
      assigned == UNION { { found(i)[k] : k \in 1..Len(found(i)) } :
                          i \in 1..Len(posicaoGroups) }
      unassigned == Unassigned(bubbles, assigned)
      groups == [i \in 1..Len(posicaoGroups) |->
                   [groupLabel |-> posicaoGroups[i].label,
                    x |-> posicaoGroups[i].x, y |-> posicaoGroups[i].y,
                    bubbles |-> [k \in 1..Len(found(i)) |-> byColumn[found(i)[k]]]
                                  \o (IF i = 1 THEN unassigned ELSE <<>>)]]
  IN  IF unassigned # <<>> /\ posicaoGroups = <<>>
      THEN << [groupLabel |-> EtapasTitle, x |-> JUndefined, y |-> JUndefined,
               bubbles |-> unassigned] >>
      ELSE groups

(***************************************************************************)
(* blkEncoding: the notes of the BLK column                                *)
(***************************************************************************)
NotePrefix == <<"N", "O", "T", "E", ":">>

\* the identifiers of the model that start with NOTE:
NoteIdOf == "g1" :> "NOTE:g1" @@ "g2" :> "NOTE:g2" @@ "g3" :> "NOTE:g3"
            @@ "g4" :> "NOTE:g4" @@ "g5" :> "NOTE:g5" @@ "g6" :> "NOTE:g6"

\* typeof id === "string" && id.startsWith("NOTE:")
HasNotePrefix(id) ==
  /\ id.t = "str"
  /\ IF "s" \in DOMAIN id THEN StartsWith(id.s, NotePrefix)
     ELSE \E k \in DOMAIN NoteIdOf : NoteIdOf[k] = id.id

DEFAULT_BG_COLOR == <<"#", "1", "e", "3", "a", "5", "f">>
DEFAULT_TEXT_COLOR == <<"#", "f", "f", "f", "f", "f", "f">>

\* the note of a note node dropped on the canvas
EmptyNote ==
  [textPreview |-> <<>>, bold |-> FALSE, italic |-> FALSE, fontSize |-> 14,
   textColor |-> DEFAULT_TEXT_COLOR, bgColor |-> DEFAULT_BG_COLOR]

\* typeof value === "number" ? value : fallback
NumberOr(value, fallback) == IF value.t = "num" THEN value.n ELSE fallback

\* typeof value === "string" ? value : fallback
StringOr(value, fallback) ==
  IF value.t = "str" /\ "s" \in DOMAIN value THEN value.s ELSE fallback

\* one entry [id, x, y, w, h, fs, tc, bg, b, i, texto] as a note
ParsedBlkNote(entry) ==
  [id |-> entry[1],
   x |-> NumberOr(entry[2], 0), y |-> NumberOr(entry[3], 0),
   width |-> NumberOr(entry[4], 280), height |-> NumberOr(entry[5], 180),
   noteData |-> [textPreview |-> StringOr(entry[11], <<>>),
                 bold |-> IsNumber(entry[9], 1), italic |-> IsNumber(entry[10], 1),
                 fontSize |-> NumberOr(entry[6], 14),
                 textColor |-> StringOr(entry[7], DEFAULT_TEXT_COLOR),
                 bgColor |-> StringOr(entry[8], DEFAULT_BG_COLOR)]]

\* decodeBlk: the entries of {"v":1,"n":[...]} that are arrays of eleven or
\* more whose first member is a string starting with NOTE:, each field of a
\* wrong type replaced by its default; [] for no text, for a text that is no
\* JSON (the throw of JSON.parse is caught), for another version and for an
\* n that is no array
decodeBlk(blk) ==
  LET parsed == JSONparse(blk)
      n == Member(parsed.value, "n")
      entries == IF n.t # "arr" THEN <<>>
                 ELSE SelectSeq(n.a, LAMBDA entry : /\ ArrayOfAtLeast(entry, 11)
                                                    /\ HasNotePrefix(entry.a[1]))
  IN  IF NoText(blk) \/ (blk.form = "plain" /\ trim(blk.chars) = <<>>) THEN <<>>
      ELSE IF parsed.threw THEN <<>>
      ELSE IF ~IsNumber(Member(parsed.value, "v"), 1) THEN <<>>
      ELSE [k \in 1..Len(entries) |-> ParsedBlkNote(entries[k].a)]

\* 'Bloco de Notas', the label of every note node
NoteLabel == <<"B", "l", "o", "c", "o", " ", "d", "e", " ", "N", "o", "t", "a", "s">>

\* the identifier a note of the BLK column gets in the flow
NoteNodeId(id) == IF "id" \in DOMAIN id THEN id.id ELSE id.s

blkNotesToFlowNodes(notes) ==
  [k \in 1..Len(notes) |->
     [id |-> NoteNodeId(notes[k].id), type |-> "note",
      position |-> [x |-> Whole(notes[k].x), y |-> Whole(notes[k].y)],
      label |-> NoteLabel, bubbles |-> <<>>,
      width |-> notes[k].width, height |-> notes[k].height,
      note |-> notes[k].noteData]]


\* withNotePrefix: the identifier, with NOTE: before it unless it starts so
withNotePrefix(id) ==
  IF \E k \in DOMAIN NoteIdOf : NoteIdOf[k] = id THEN id ELSE NoteIdOf[id]

\* Boolean(textPreview.trim() || html.trim()); the html of a note is its text
\* inside the tags of its flags
HasContent(note) == trim(note.textPreview) # <<>> \/ note.bold \/ note.italic

\* the entry with the width and the height in each other's place
BlkNoteEntrySwapped(node) ==
  JArr(<< JId(withNotePrefix(node.id)),
          JNum(MathRound(node.position.x)), JNum(MathRound(node.position.y)),
          JNum(IF node.height = 0 THEN 180 ELSE node.height),
          JNum(IF node.width = 0 THEN 280 ELSE node.width),
          JNum(IF node.note.fontSize = 0 THEN 14 ELSE node.note.fontSize),
          JStr(IF node.note.textColor = <<>> THEN DEFAULT_TEXT_COLOR ELSE node.note.textColor),
          JStr(IF node.note.bgColor = <<>> THEN DEFAULT_BG_COLOR ELSE node.note.bgColor),
          JNum(IF node.note.bold THEN 1 ELSE 0), JNum(IF node.note.italic THEN 1 ELSE 0),
          JStr(TrimRight(node.note.textPreview)) >>)

\* the entry [id, x, y, w, h, fs, tc, bg, b, i, texto] of a note node: the
\* position rounded, every missing size or style by its default, the text
\* preview without its trailing blanks
BlkNoteEntry(node) ==
  JArr(<< JId(withNotePrefix(node.id)),
          JNum(MathRound(node.position.x)), JNum(MathRound(node.position.y)),
          JNum(IF node.width = 0 THEN 280 ELSE node.width),
          JNum(IF node.height = 0 THEN 180 ELSE node.height),
          JNum(IF node.note.fontSize = 0 THEN 14 ELSE node.note.fontSize),
          JStr(IF node.note.textColor = <<>> THEN DEFAULT_TEXT_COLOR ELSE node.note.textColor),
          JStr(IF node.note.bgColor = <<>> THEN DEFAULT_BG_COLOR ELSE node.note.bgColor),
          JNum(IF node.note.bold THEN 1 ELSE 0), JNum(IF node.note.italic THEN 1 ELSE 0),
          JStr(TrimRight(node.note.textPreview)) >>)

\* encodeBlk: null without a note node that has content; otherwise the
\* document {"v":1,"n":[...]} of the note nodes that have content
encodeBlk(ns) ==
  LET validNotes == SelectSeq(ns, LAMBDA n : n.type = "note" /\ HasContent(n.note))
  IN  IF validNotes = <<>> THEN NullText
      ELSE JsonText(JObj([v |-> JNum(1),
                          n |-> JArr([k \in 1..Len(validNotes) |->
                                        BlkNoteEntry(validNotes[k])])]))

(***************************************************************************)
(* The fetched row and the start node                                      *)
(***************************************************************************)
StartLabel == <<"I", "n", "í", "c", "i", "o">>

StartNode(position) ==
  [id |-> StartNodeId, type |-> "start", position |-> position,
   label |-> StartLabel, bubbles |-> <<>>]

\* the row of the table: the POSICAO text, the BLK text, and the bubbles
\* parseSupabaseRow makes of the columns M1..M50, T1..T50 that hold a value
NoRow == [posicao |-> NullText, blk |-> NullText, bubbles |-> <<>>]

(***************************************************************************)
(* The stores (workflowStore / operationsStore): one flow                  *)
(***************************************************************************)
applyNormalizationToNodes(ns, es) ==
  LET orderInfo == calculateGroupOrder(ns, es)
      groupOrder == [i \in 1..Len(orderInfo) |-> orderInfo[i].groupId]
      updates == normalizeColumnsWithGroupOrder(ns, groupOrder)
  IN  IF DOMAIN updates = {} THEN ns ELSE ApplyColumnUpdates(ns, updates)

\* kinds of bubble that matter to the slot model: a content bubble, a timer
\* bubble and a visual-only note bubble
BubbleTypes == {"message", "time", "note"}

\* columns a caller may hand to addBubbleToNode instead of the suggested one:
\* none, and a padded lower-case " m1" (a duplicate when given twice, the
\* wrong letter when given to a timer bubble)
ManualColumns == { <<>>, <<" ", "m", "1">> }

GroupIdsOf(ns) == { ns[i].id : i \in { j \in 1..Len(ns) : ns[j].type = "group" } }

NodeIdsOf(ns) == { ns[i].id : i \in 1..Len(ns) }

BubbleIdsOf(ns) ==
  { getAllBubblesFromFlowNodes(ns)[i].id : i \in 1..Len(getAllBubblesFromFlowNodes(ns)) }

\* what the last store operation was and what it was called with
\* (for deleteBubble: the group and bubble named, the column captured, the
\* type of the bubble removed and the ids of the bubbles whose column was
\* rewritten)
Last(op, nodeId, bubbleId, col, type, shifted) ==
  [op |-> op, nodeId |-> nodeId, bubbleId |-> bubbleId, col |-> col,
   type |-> type, shifted |-> shifted]

\* createFlow: a flow holding only the start node
Init ==
  /\ nodes = << StartNode([x |-> Whole(50), y |-> Whole(50)]) >>
  /\ row = NoRow
  /\ edges = <<>>
  /\ nodeCtr = 0
  /\ bubbleCtr = 0
  /\ edgeCtr = 0
  /\ last = Last("createFlow", "", 0, <<>>, "", {})

addNode(ns, node) == Append(ns, node)

\* `Group #${groupCount}`, groupCount the number of groups plus one
GroupLabel(ns) ==
  <<"G", "r", "o", "u", "p", " ", "#">>
    \o ToDigits(Len(SelectSeq(ns, LAMBDA n : n.type = "group")) + 1)

AddNode(maxNodes, positions) ==
  /\ nodeCtr < maxNodes
  /\ \E pos \in positions :
       nodes' = addNode(nodes, [id |-> NodeIdTable[nodeCtr + 1], type |-> "group",
                                position |-> pos, label |-> GroupLabel(nodes),
                                bubbles |-> <<>>])
  /\ nodeCtr' = nodeCtr + 1
  /\ last' = Last("addNode", "", 0, <<>>, "", {})
  /\ UNCHANGED <<row, edges, bubbleCtr, edgeCtr>>

\* updateNode with { position }: the node is dragged on the canvas
updateNode(ns, nodeId, position) ==
  [i \in 1..Len(ns) |->
     IF ns[i].id # nodeId THEN ns[i] ELSE [ns[i] EXCEPT !.position = position]]

UpdateNode(positions) ==
  /\ \E nodeId \in GroupIdsOf(nodes), pos \in positions :
       /\ nodes' = updateNode(nodes, nodeId, pos)
       /\ nodes' # nodes
       /\ last' = Last("updateNode", "", 0, <<>>, "", {})
  /\ UNCHANGED <<row, edges, nodeCtr, bubbleCtr, edgeCtr>>

deleteNodeNodes(ns, nodeId) == SelectSeq(ns, LAMBDA n : n.id # nodeId)

deleteNodeEdges(es, nodeId) ==
  SelectSeq(es, LAMBDA e : e.source # nodeId /\ e.target # nodeId)

DeleteNode ==
  /\ \E nodeId \in GroupIdsOf(nodes) :
       /\ nodes' = deleteNodeNodes(nodes, nodeId)
       /\ edges' = deleteNodeEdges(edges, nodeId)
       /\ last' = Last("deleteNode", "", 0, <<>>, "", {})
  /\ UNCHANGED <<row, nodeCtr, bubbleCtr, edgeCtr>>

addBubbleToNode(ns, nodeId, bubble) ==
  [i \in 1..Len(ns) |->
     IF ns[i].id = nodeId /\ ns[i].type = "group"
     THEN [ns[i] EXCEPT !.bubbles = Append(ns[i].bubbles, bubble)]
     ELSE ns[i]]

\* suggestColumnForType of the editor: the next free column of the type's kind
suggestColumnForType(ns, type) ==
  suggestNextAvailableColumn(getAllBubblesFromFlowNodes(ns), getColumnKindForBubble(type))

\* the caller builds the bubble: a fresh id, a type, and a column: the one
\* suggested for the type (none when none is left) or one of manualColumns
AddBubbleToNode(maxBubbles, types, manualColumns) ==
  /\ bubbleCtr < maxBubbles
  /\ \E nodeId \in GroupIdsOf(nodes), type \in types :
       \E col \in { suggestColumnForType(nodes, type) } \cup manualColumns :
         nodes' = addBubbleToNode(nodes, nodeId,
                    [id |-> bubbleCtr + 1, type |-> type, supabaseColumn |-> col])
  /\ last' = Last("addBubbleToNode", "", bubbleCtr + 1, <<>>, "", {})
  /\ bubbleCtr' = bubbleCtr + 1
  /\ UNCHANGED <<row, edges, nodeCtr, edgeCtr>>

\* step 1 of deleteBubble: the bubble filtered out of the addressed group
RemoveBubble(ns, nodeId, bubbleId) ==
  [i \in 1..Len(ns) |->
     IF ns[i].id # nodeId \/ ns[i].type # "group" THEN ns[i]
     ELSE [ns[i] EXCEPT !.bubbles = SelectSeq(ns[i].bubbles, LAMBDA b : b.id # bubbleId)]]

\* the column captured in step 1; <<>> when the bubble is not in that group
DeletedColumn(ns, nodeId, bubbleId) ==
  LET hits == SelectSeq(getAllBubblesFromFlowNodes(
                          SelectSeq(ns, LAMBDA n : n.id = nodeId)),
                        LAMBDA b : b.id = bubbleId)
  IN  IF hits = <<>> THEN <<>> ELSE hits[Len(hits)].supabaseColumn

\* the type of the bubble removed; "" when the bubble is not in that group
DeletedType(ns, nodeId, bubbleId) ==
  LET hits == SelectSeq(getAllBubblesFromFlowNodes(
                          SelectSeq(ns, LAMBDA n : n.id = nodeId)),
                        LAMBDA b : b.id = bubbleId)
  IN  IF hits = <<>> THEN "" ELSE hits[Len(hits)].type

\* a deletion that removes the bubble and leaves every other column as it is
deleteBubbleWithoutShift(ns, nodeId, bubbleId) ==
  RemoveBubble(ns, nodeId, bubbleId)

deleteBubble(ns, nodeId, bubbleId) ==
  LET deletedColumn == DeletedColumn(ns, nodeId, bubbleId)
      nodesAfterDeletion == RemoveBubble(ns, nodeId, bubbleId)
      columnUpdates == reorganizeColumnsAfterDeletion(nodesAfterDeletion, deletedColumn)
  IN  IF Len(deletedColumn) = 0 THEN nodesAfterDeletion
      ELSE IF DOMAIN columnUpdates = {} THEN nodesAfterDeletion
      ELSE ApplyColumnUpdates(nodesAfterDeletion, columnUpdates)

DeleteBubble ==
  /\ \E nodeId \in GroupIdsOf(nodes), bubbleId \in BubbleIdsOf(nodes) :
       /\ nodes' = deleteBubble(nodes, nodeId, bubbleId)
       /\ last' = Last("deleteBubble", nodeId, bubbleId,
                       DeletedColumn(nodes, nodeId, bubbleId),
                       DeletedType(nodes, nodeId, bubbleId),
                       DOMAIN reorganizeColumnsAfterDeletion(
                                RemoveBubble(nodes, nodeId, bubbleId),
                                DeletedColumn(nodes, nodeId, bubbleId)))
  /\ UNCHANGED <<row, edges, nodeCtr, bubbleCtr, edgeCtr>>

reorderBubblesInNode(ns, es, nodeId, newBubbleOrder) ==
  LET reorderedNodes ==
        [i \in 1..Len(ns) |->
           IF ns[i].id = nodeId /\ ns[i].type = "group"
           THEN [ns[i] EXCEPT !.bubbles = newBubbleOrder]
           ELSE ns[i]]
  IN  applyNormalizationToNodes(reorderedNodes, es)

\* the orders the sortable list can hand over: the group's bubbles, rearranged
Rearrangements(bs) ==
  { [i \in 1..Len(bs) |-> bs[p[i]]] : p \in Permutations(1..Len(bs)) }

ReorderBubblesInNode ==
  /\ \E i \in 1..Len(nodes) :
       /\ nodes[i].type = "group"
       /\ Len(nodes[i].bubbles) > 0
       /\ \E newBubbleOrder \in Rearrangements(nodes[i].bubbles) :
            nodes' = reorderBubblesInNode(nodes, edges, nodes[i].id, newBubbleOrder)
       /\ last' = Last("reorderBubblesInNode", "", 0, <<>>, "", {})
  /\ UNCHANGED <<row, edges, nodeCtr, bubbleCtr, edgeCtr>>

\* bubbles.splice(insertIndex, 0, bubble); a negative index stands for undefined
Splice(bs, insertIndex, bubble) ==
  IF insertIndex >= 0 /\ insertIndex < Len(bs)
  THEN SubSeq(bs, 1, insertIndex) \o <<bubble>> \o SubSeq(bs, insertIndex + 1, Len(bs))
  ELSE Append(bs, bubble)

moveBubbleBetweenNodes(ns, es, sourceNodeId, targetNodeId, bubbleId, insertIndex) ==
  LET found == SelectSeq(getAllBubblesFromFlowNodes(
                           SelectSeq(ns, LAMBDA n : n.id = sourceNodeId)),
                         LAMBDA b : b.id = bubbleId)
      movedBubble == found[Len(found)]
      nodesAfterRemove == RemoveBubble(ns, sourceNodeId, bubbleId)
      nodesAfterAdd ==
        [i \in 1..Len(ns) |->
           IF nodesAfterRemove[i].id # targetNodeId \/ nodesAfterRemove[i].type # "group"
           THEN nodesAfterRemove[i]
           ELSE [nodesAfterRemove[i] EXCEPT
                   !.bubbles = Splice(nodesAfterRemove[i].bubbles, insertIndex, movedBubble)]]
  IN  IF found = <<>> THEN ns
      ELSE applyNormalizationToNodes(nodesAfterAdd, es)

\* The editor names the group that holds the bubble as the source; any node
\* may be the target.  The insert index is the front of the target list (0) or
\* undefined (-1, the bubble is pushed at the end).
MoveFound ==
  /\ \E s \in 1..Len(nodes), t \in 1..Len(nodes) :
       /\ nodes[s].type = "group"
       /\ \E k \in 1..Len(nodes[s].bubbles), insertIndex \in {-1, 0} :
            nodes' = moveBubbleBetweenNodes(nodes, edges, nodes[s].id, nodes[t].id,
                                            nodes[s].bubbles[k].id, insertIndex)
  /\ last' = Last("moveBubbleBetweenNodes", "", 0, <<>>, "", {})
  /\ UNCHANGED <<row, edges, nodeCtr, bubbleCtr, edgeCtr>>

\* a source group that does not hold the bubble: the flow is returned as it is
MoveNotFound ==
  /\ \E s \in 1..Len(nodes), bubbleId \in BubbleIdsOf(nodes) :
       /\ nodes[s].type = "group"
       /\ \A k \in 1..Len(nodes[s].bubbles) : nodes[s].bubbles[k].id # bubbleId
       /\ nodes' = moveBubbleBetweenNodes(nodes, edges, nodes[s].id, nodes[s].id,
                                          bubbleId, -1)
  /\ last' = Last("moveBubbleBetweenNodes:notFound", "", 0, <<>>, "", {})
  /\ UNCHANGED <<row, edges, nodeCtr, bubbleCtr, edgeCtr>>

MoveBubbleBetweenNodes == MoveFound \/ MoveNotFound

addEdgeEdges(es, edge) == Append(es, edge)

\* an id that no node of the flow has
UnknownNodeId == "ghost"

\* a connection drawn from one of the sources to one of the targets
AddEdge(maxEdges, sources, targets) ==
  /\ edgeCtr < maxEdges
  /\ \E source \in sources, target \in targets :
       LET newEdges == addEdgeEdges(edges, [id |-> edgeCtr + 1, source |-> source,
                                            target |-> target])
       IN  /\ edges' = newEdges
           /\ nodes' = applyNormalizationToNodes(nodes, newEdges)
  /\ last' = Last("addEdge", "", 0, <<>>, "", {})
  /\ edgeCtr' = edgeCtr + 1
  /\ UNCHANGED <<row, nodeCtr, bubbleCtr>>

deleteEdgeEdges(es, edgeId) == SelectSeq(es, LAMBDA e : e.id # edgeId)

DeleteEdge ==
  /\ \E k \in 1..Len(edges) :
       LET newEdges == deleteEdgeEdges(edges, edges[k].id)
       IN  /\ edges' = newEdges
           /\ nodes' = applyNormalizationToNodes(nodes, newEdges)
           /\ last' = Last("deleteEdge", "", 0, <<>>, "", {})
  /\ UNCHANGED <<row, nodeCtr, bubbleCtr, edgeCtr>>

(***************************************************************************)
(* The editor (FlowBuilder): handlers in front of the store                *)
(***************************************************************************)
\* updateBubble: the bubble's data is replaced (here: its column) and, when
\* newType is given, its type; "" stands for no newType
updateBubble(ns, nodeId, bubbleId, column, newType) ==
  [i \in 1..Len(ns) |->
     IF ns[i].id = nodeId /\ ns[i].type = "group"
     THEN [ns[i] EXCEPT !.bubbles =
             [k \in 1..Len(ns[i].bubbles) |->
                IF ns[i].bubbles[k].id = bubbleId
                THEN [ns[i].bubbles[k] EXCEPT
                        !.supabaseColumn = column,
                        !.type = IF newType # "" THEN newType ELSE @]
                ELSE ns[i].bubbles[k]]]
     ELSE ns[i]]

\* allBubblesInFlow.some(...): another bubble whose column parses to the
\* normalized request
HasDuplicateColumn(bubbles, bubbleId, normalized) ==
  \E i \in 1..Len(bubbles) :
    /\ bubbles[i].id # bubbleId
    /\ Len(bubbles[i].supabaseColumn) > 0
    /\ parseColumn(bubbles[i].supabaseColumn) # NULL
    /\ buildColumn(parseColumn(bubbles[i].supabaseColumn).kind,
                   parseColumn(bubbles[i].supabaseColumn).index) = normalized

\* the bubble of that id in that node, when the node is a group
BubbleInGroup(ns, nodeId, bubbleId) ==
  SelectSeq(getAllBubblesFromFlowNodes(SelectSeq(ns, LAMBDA n : n.id = nodeId)),
            LAMBDA b : b.id = bubbleId)

\* a handler that looks for the duplicate among the bubbles of the group only
handleChangeColumnWithinGroup(ns, nodeId, bubbleId, column) ==
  LET parsed == parseColumn(column)
      normalized == buildColumn(parsed.kind, parsed.index)
  IN  IF parsed = NULL
      THEN [told |-> "invalid", nodes |-> ns]
      ELSE IF HasDuplicateColumn(
                getAllBubblesFromFlowNodes(SelectSeq(ns, LAMBDA n : n.id = nodeId)),
                bubbleId, normalized)
      THEN [told |-> "duplicate", nodes |-> ns]
      ELSE IF BubbleInGroup(ns, nodeId, bubbleId) = <<>>
      THEN [told |-> "", nodes |-> ns]
      ELSE [told |-> "", nodes |-> updateBubble(ns, nodeId, bubbleId, normalized, "")]

\* handleChangeBubbleColumn: what the caller is told, and the nodes afterwards
handleChangeBubbleColumn(ns, nodeId, bubbleId, column) ==
  LET parsed == parseColumn(column)
      normalized == buildColumn(parsed.kind, parsed.index)
  IN  IF parsed = NULL
      THEN [told |-> "invalid", nodes |-> ns]
      ELSE IF HasDuplicateColumn(getAllBubblesFromFlowNodes(ns), bubbleId, normalized)
      THEN [told |-> "duplicate", nodes |-> ns]
      ELSE IF BubbleInGroup(ns, nodeId, bubbleId) = <<>>
      THEN [told |-> "", nodes |-> ns]
      ELSE [told |-> "", nodes |-> updateBubble(ns, nodeId, bubbleId, normalized, "")]

\* strings a caller can request: columns of either letter, a padded
\* lower-case one, a zero-padded one, indices 0 and 51, three digits,
\* another letter, and a letter alone
Requests ==
  { <<"M", "1">>, <<"M", "2">>, <<"M", "3">>, <<"T", "1">>, <<"T", "2">>,
    <<" ", "m", "2">>, <<"M", "0", "3">>, <<"M", "0">>, <<"M", "5", "1">>,
    <<"T", "1", "0", "0">>, <<"X", "1">>, <<"M">> }

ChangeBubbleColumn(requests) ==
  /\ \E nodeId \in GroupIdsOf(nodes), bubbleId \in BubbleIdsOf(nodes),
        column \in requests :
       LET r == handleChangeBubbleColumn(nodes, nodeId, bubbleId, column)
       IN  /\ nodes' = r.nodes
           /\ last' = Last(IF r.told = "" THEN "handleChangeBubbleColumn"
                           ELSE IF r.told = "invalid"
                                THEN "handleChangeBubbleColumn:invalid"
                                ELSE "handleChangeBubbleColumn:duplicate",
                           nodeId, bubbleId, column,
                           IF BubbleInGroup(nodes, nodeId, bubbleId) = <<>> THEN ""
                           ELSE BubbleInGroup(nodes, nodeId, bubbleId)[1].type,
                           {})
  /\ UNCHANGED <<row, edges, nodeCtr, bubbleCtr, edgeCtr>>

HandleChangeBubbleColumn == ChangeBubbleColumn(Requests)

\* a handler that adds the bubble whether or not a column is left
handleDropWithoutLimit(ns, nodeId, type, bubbleId) ==
  [told |-> "",
   nodes |-> addBubbleToNode(ns, nodeId,
               [id |-> bubbleId, type |-> type,
                supabaseColumn |-> suggestColumnForType(ns, type)])]

\* handleDropBubbleIntoGroup.performAdd: the bubble gets the suggested
\* column; with none left the caller is told of the limit
handleDropBubbleIntoGroup(ns, nodeId, type, bubbleId) ==
  LET suggested == suggestColumnForType(ns, type)
  IN  IF Len(suggested) = 0
      THEN [told |-> "limit", nodes |-> ns]
      ELSE [told |-> "",
            nodes |-> addBubbleToNode(ns, nodeId,
                        [id |-> bubbleId, type |-> type, supabaseColumn |-> suggested])]

HandleDropBubbleIntoGroup(maxBubbles, targets, types) ==
  /\ bubbleCtr < maxBubbles
  /\ \E nodeId \in targets, type \in types :
       LET r == handleDropBubbleIntoGroup(nodes, nodeId, type, bubbleCtr + 1)
       IN  /\ nodes' = r.nodes
           /\ bubbleCtr' = IF r.told = "" THEN bubbleCtr + 1 ELSE bubbleCtr
           /\ last' = Last(IF r.told = "" THEN "handleDropBubbleIntoGroup"
                           ELSE "handleDropBubbleIntoGroup:limit",
                           nodeId, bubbleCtr + 1, <<>>, type, {})
  /\ UNCHANGED <<row, edges, nodeCtr, edgeCtr>>

\* onCanvasDrop.performCreateGroup: a new group holding one bubble with the
\* suggested column; with none left the caller is told of the limit
performCreateGroup(ns, type, pos, nodeId, bubbleId) ==
  LET suggested == suggestColumnForType(ns, type)
  IN  IF Len(suggested) = 0
      THEN [told |-> "limit", nodes |-> ns]
      ELSE [told |-> "",
            nodes |-> addNode(ns, [id |-> nodeId, type |-> "group", position |-> pos,
                                   label |-> GroupLabel(ns),
                                   bubbles |-> << [id |-> bubbleId, type |-> type,
                                                   supabaseColumn |-> suggested] >>])]

\* onCanvasDrop: a note becomes a note node of its own; a timer dropped on a
\* flow without content bubbles waits for the confirmation of the warning,
\* which may be cancelled; anything else creates a group
onCanvasDrop(ns, type, pos, nodeId, bubbleId, confirmed) ==
  IF type = "note"
  THEN [told |-> "note",
        nodes |-> addNode(ns, [id |-> NoteIdOf[nodeId], type |-> "note", position |-> pos,
                               label |-> NoteLabel, bubbles |-> <<>>,
                               width |-> 280, height |-> 180, note |-> EmptyNote])]
  ELSE IF /\ type = "time"
          /\ SelectSeq(getAllBubblesFromFlowNodes(ns),
                       LAMBDA b : getColumnKindForBubble(b.type) = "M") = <<>>
          /\ ~confirmed
  THEN [told |-> "cancelled", nodes |-> ns]
  ELSE performCreateGroup(ns, type, pos, nodeId, bubbleId)

OnCanvasDrop(maxNodes, maxBubbles, types, positions) ==
  /\ nodeCtr < maxNodes
  /\ bubbleCtr < maxBubbles
  /\ \E type \in types, pos \in positions, confirmed \in BOOLEAN :
       LET r == onCanvasDrop(nodes, type, pos, NodeIdTable[nodeCtr + 1],
                             bubbleCtr + 1, confirmed)
       IN  /\ nodes' = r.nodes
           /\ nodeCtr' = IF r.told \in {"", "note"} THEN nodeCtr + 1 ELSE nodeCtr
           /\ bubbleCtr' = IF r.told = "" THEN bubbleCtr + 1 ELSE bubbleCtr
           /\ last' = Last(IF r.told = "" THEN "onCanvasDrop"
                           ELSE IF r.told = "note" THEN "onCanvasDrop:note"
                           ELSE IF r.told = "limit" THEN "onCanvasDrop:limit"
                           ELSE "onCanvasDrop:cancelled",
                           NodeIdTable[nodeCtr + 1], bubbleCtr + 1, <<>>, type, {})
  /\ UNCHANGED <<row, edges, edgeCtr>>

\* onNodeDragStop: the position of a group, of the start node or of a note
\* node is stored; a note node also stores its width and height
onNodeDragStop(ns, nodeId, position, size) ==
  [i \in 1..Len(ns) |->
     IF ns[i].id # nodeId \/ ns[i].type \notin {"group", "start", "note"} THEN ns[i]
     ELSE IF ns[i].type = "note"
     THEN [ns[i] EXCEPT !.position = position, !.width = size.width,
                        !.height = size.height]
     ELSE [ns[i] EXCEPT !.position = position]]

OnNodeDragStop(positions, sizes) ==
  /\ \E i \in 1..Len(nodes), pos \in positions, size \in sizes :
       /\ nodes' = onNodeDragStop(nodes, nodes[i].id, pos, size)
       /\ nodes' # nodes
       /\ last' = Last(IF nodes[i].position = pos THEN "onNodeDragStop:resize"
                       ELSE "onNodeDragStop", nodes[i].id, 0, <<>>, nodes[i].type, {})
  /\ UNCHANGED <<row, edges, nodeCtr, bubbleCtr, edgeCtr>>

\* GroupNode.commitTitle and handleRenameGroup: the trimmed draft becomes the
\* label of the group; an empty one is refused
commitTitle(ns, nodeId, titleDraft) ==
  IF trim(titleDraft) = <<>> THEN ns
  ELSE [i \in 1..Len(ns) |->
          IF ns[i].id # nodeId THEN ns[i] ELSE [ns[i] EXCEPT !.label = trim(titleDraft)]]

CommitTitle(titleDrafts) ==
  /\ \E nodeId \in GroupIdsOf(nodes), titleDraft \in titleDrafts :
       /\ nodes' = commitTitle(nodes, nodeId, titleDraft)
       /\ last' = Last(IF trim(titleDraft) = <<>> THEN "commitTitle:empty"
                       ELSE "commitTitle", nodeId, 0, <<>>, "group", {})
  /\ UNCHANGED <<row, edges, nodeCtr, bubbleCtr, edgeCtr>>

\* handleSaveNote for the note node being edited
handleSaveNote(ns, editingNoteId, noteData) ==
  [i \in 1..Len(ns) |->
     IF ns[i].id = editingNoteId /\ ns[i].type = "note"
     THEN [ns[i] EXCEPT !.note = noteData] ELSE ns[i]]

HandleSaveNote(notes) ==
  /\ \E i \in 1..Len(nodes), noteData \in notes :
       /\ nodes[i].type = "note"
       /\ nodes' = handleSaveNote(nodes, nodes[i].id, noteData)
       /\ last' = Last("handleSaveNote", nodes[i].id, 0, <<>>, "note", {})
  /\ UNCHANGED <<row, edges, nodeCtr, bubbleCtr, edgeCtr>>

\* handleDeleteNoteNode: deleteNode of the store for a note node
HandleDeleteNoteNode ==
  /\ \E i \in 1..Len(nodes) :
       /\ nodes[i].type = "note"
       /\ nodes' = deleteNodeNodes(nodes, nodes[i].id)
       /\ edges' = deleteNodeEdges(edges, nodes[i].id)
       /\ last' = Last("handleDeleteNoteNode", nodes[i].id, 0, <<>>, "note", {})
  /\ UNCHANGED <<row, nodeCtr, bubbleCtr, edgeCtr>>

(***************************************************************************)
(* FetchFlowsModal: the import of a fetched row                            *)
(***************************************************************************)
\* the group nodes of a current-format snapshot keep the recorded ids
importedGroupsV2(dg) ==
  [i \in 1..Len(dg) |->
     [id |-> dg[i].groupId.id, type |-> "group",
      position |-> [x |-> Whole(dg[i].x.n), y |-> Whole(dg[i].y.n)],
      label |-> dg[i].title.s, bubbles |-> dg[i].bubbles]]

\* the recorded connections, under fresh ids
importedEdgesV2(layoutEdges, edgeId) ==
  [k \in 1..Len(layoutEdges) |->
     [id |-> edgeId + k, source |-> layoutEdges[k].source.id,
      target |-> layoutEdges[k].target.id]]

\* the recorded position of the start node, or the default one
startNodePos(startNodePosition) ==
  IF startNodePosition = <<>> THEN [x |-> Whole(50), y |-> Whole(50)]
  ELSE [x |-> Whole(startNodePosition[1].n), y |-> Whole(startNodePosition[2].n)]

\* the branch of handleImport for a current-format snapshot
importV2(layout, distributed, noteNodes, edgeId) ==
  IF distributed.threw
  THEN [threw |-> TRUE, nodes |-> <<>>, edges |-> <<>>, created |-> 0]
  ELSE [threw |-> FALSE,
        nodes |-> <<StartNode(startNodePos(layout.startNodePosition))>>
                  \o importedGroupsV2(distributed.groups) \o noteNodes,
        edges |-> importedEdgesV2(layout.edges, edgeId),
        created |-> 0]

\* the branch of handleImport for a legacy snapshot: fresh ids, no connections
importV1(dg, noteNodes, nodeId) ==
  [threw |-> FALSE,
   nodes |-> <<StartNode([x |-> Whole(50), y |-> Whole(50)])>>
             \o [i \in 1..Len(dg) |->
                   [id |-> NodeIdTable[nodeId + i], type |-> "group",
                    position |-> [x |-> Whole(NumberOr(dg[i].x, 250 + (i - 1) * 450)),
                                  y |-> Whole(NumberOr(dg[i].y, 50))],
                    label |-> dg[i].groupLabel, bubbles |-> dg[i].bubbles]]
             \o noteNodes,
   edges |-> <<>>, created |-> Len(dg)]

\* the branch of handleImport without a usable snapshot: one group "Etapas"
importNoPosicao(bubbles, noteNodes, nodeId) ==
  [threw |-> FALSE,
   nodes |-> <<StartNode([x |-> Whole(50), y |-> Whole(50)]),
               [id |-> NodeIdTable[nodeId + 1], type |-> "group",
                position |-> [x |-> Whole(250), y |-> Whole(50)],
                label |-> EtapasTitle, bubbles |-> bubbles]>> \o noteNodes,
   edges |-> <<>>, created |-> 1]

\* the choice of the branch from what the POSICAO column parsed to
importParsed(bubbles, posicaoResult, isV2, noteNodes, nodeId, edgeId) ==
  IF isV2 /\ posicaoResult.kind = "v2"
  THEN importV2(posicaoResult.v2[1],
                distributeBubblesByPosicaoV2(bubbles, posicaoResult.v2[1]),
                noteNodes, edgeId)
  ELSE IF posicaoResult.kind = "v1"
  THEN importV1(distributeBubblesByPosicao(bubbles, posicaoResult.v1), noteNodes, nodeId)
  ELSE importNoPosicao(bubbles, noteNodes, nodeId)

\* handleImport for one fetched flow: the nodes and edges handed to
\* updateFlow.  The groups of a current-format snapshot keep their ids; the
\* groups of a legacy snapshot, and the single group of a flow without a
\* snapshot, get new ones (nodeId + 1, nodeId + 2, ...); edges come from a
\* current-format snapshot only.  What distributeBubblesByPosicaoV2 throws
\* leaves the handler.
handleImport(r, nodeId, edgeId) ==
  importParsed(r.bubbles,
               IF NoText(r.posicao) THEN NoLayout ELSE parsePosicaoAuto(r.posicao),
               IF NoText(r.posicao) THEN FALSE ELSE isPosicaoV2(r.posicao),
               IF NoText(r.blk) THEN <<>> ELSE blkNotesToFlowNodes(decodeBlk(r.blk)),
               nodeId, edgeId)

\* the flow takes what the import built; an import that threw leaves it as it was
LoadImported(r) ==
  /\ nodes' = IF r.threw THEN nodes ELSE r.nodes
  /\ edges' = IF r.threw THEN edges ELSE r.edges
  /\ nodeCtr' = nodeCtr + r.created
  /\ edgeCtr' = edgeCtr + Len(r.edges)
  /\ last' = Last(IF r.threw THEN "handleImport:threw" ELSE "handleImport",
                  "", 0, <<>>, "", {})
  /\ UNCHANGED <<bubbleCtr, row>>

\* the import of the fetched row into the flow
HandleImport ==
  /\ last.op = "parseSupabaseRow"
  /\ LoadImported(handleImport(row, nodeCtr, edgeCtr))

(***************************************************************************)
(* Spec: the store operations on one flow with bubbles                     *)
(***************************************************************************)
SpecAddNode == AddNode(MaxNodes, SlotPositions)

\* the editor hands over the column it suggests for the type
SpecAddBubbleToNode == AddBubbleToNode(MaxBubbles, BubbleTypes, {})

\* connections from the start node to a group
SpecAddEdge == AddEdge(MaxEdges, {StartNodeId}, GroupIdsOf(nodes))

Next ==
  \/ SpecAddNode
  \/ SpecAddBubbleToNode
  \/ DeleteBubble
  \/ ReorderBubblesInNode
  \/ MoveBubbleBetweenNodes
  \/ SpecAddEdge
  \/ DeleteEdge

Spec == Init /\ [][Next]_vars

(***************************************************************************)
(* SpecOrder: groups and edges only, for the group order                   *)
(***************************************************************************)
OrderAddNode == AddNode(MaxOrderNodes, Positions)

OrderUpdateNode == UpdateNode(Positions)

\* connections from any node to a group or to an id no node has
OrderAddEdge == AddEdge(MaxOrderEdges, NodeIdsOf(nodes), GroupIdsOf(nodes) \cup {UnknownNodeId})

NextOrder ==
  \/ OrderAddNode
  \/ OrderUpdateNode
  \/ DeleteNode
  \/ OrderAddEdge
  \/ DeleteEdge

SpecOrder == Init /\ [][NextOrder]_vars

(***************************************************************************)
(* SpecNormalize: bubbles carrying any column, and the operations that     *)
(* renormalize                                                             *)
(***************************************************************************)
NormAddNode == AddNode(MaxNodes, SlotPositions)

NormAddBubbleToNode == AddBubbleToNode(MaxBubbles, BubbleTypes, ManualColumns)

NormAddEdge == AddEdge(MaxEdges, {StartNodeId}, GroupIdsOf(nodes))

NextNormalize ==
  \/ NormAddNode
  \/ NormAddBubbleToNode
  \/ ReorderBubblesInNode
  \/ NormAddEdge
  \/ DeleteEdge

SpecNormalize == Init /\ [][NextNormalize]_vars

(***************************************************************************)
(* SpecLimit: one group filled beyond the 50 columns of a kind             *)
(***************************************************************************)
\* besides content bubbles, a few timer or note bubbles
LimitTypes ==
  IF Len(SelectSeq(getAllBubblesFromFlowNodes(nodes), LAMBDA b : b.type # "message"))
       < MaxLimitOthers
  THEN BubbleTypes ELSE {"message"}

LimitAddNode == AddNode(MaxLimitNodes, SlotPositions)

\* the column is the suggested one, and none once the suggestion is null
LimitAddBubbleToNode == AddBubbleToNode(MaxLimitBubbles, LimitTypes, {})

LimitAddEdge == AddEdge(MaxEdges, {StartNodeId}, GroupIdsOf(nodes))

NextLimit ==
  \/ LimitAddNode
  \/ LimitAddBubbleToNode
  \/ LimitAddEdge

SpecLimit == Init /\ [][NextLimit]_vars

(***************************************************************************)
(* SpecManual: manual column requests on a flow built by the editor        *)
(***************************************************************************)
ManualAddNode == AddNode(MaxManualNodes, SlotPositions)

ManualAddBubbleToNode == AddBubbleToNode(MaxManualBubbles, BubbleTypes, {})

NextManual ==
  \/ ManualAddNode
  \/ ManualAddBubbleToNode
  \/ HandleChangeBubbleColumn

SpecManual == Init /\ [][NextManual]_vars

(***************************************************************************)
(* SpecDrop: the editor's drops, up to and at the 50 columns of a kind.    *)
(* Drops into a group go to the first group created.                       *)
(***************************************************************************)
\* besides content bubbles, a few timer or note bubbles
DropTypes ==
  IF Len(SelectSeq(getAllBubblesFromFlowNodes(nodes), LAMBDA b : b.type # "message"))
       < MaxDropOthers
  THEN BubbleTypes ELSE {"message"}

\* a note dropped on the canvas is a node, not a bubble
DropOnCanvas ==
  OnCanvasDrop(MaxDropNodes, MaxDropBubbles, DropTypes \cup {"note"}, SlotPositions)

DropIntoGroup ==
  HandleDropBubbleIntoGroup(MaxDropBubbles, {NodeIdTable[1]} \cap GroupIdsOf(nodes),
                            DropTypes)

NextDrop ==
  \/ DropOnCanvas
  \/ DropIntoGroup

SpecDrop == Init /\ [][NextDrop]_vars

(***************************************************************************)
(* SpecSnapshot: the editor at work on the canvas: groups and note nodes    *)
(* dropped, dragged, renamed, connected and deleted                        *)
(***************************************************************************)
\* where nodes are dropped and dragged to: a whole position and one between
\* two whole positions
SnapPositions ==
  { [x |-> Whole(10), y |-> Whole(20)], [x |-> Whole(10) + 1, y |-> Whole(20)] }

SnapSizes == { [width |-> 280, height |-> 180], [width |-> 320, height |-> 180] }

SnapTitles == { <<"I", "n", "t", "r", "o">>, <<" ">> }

\* what the note editor saves: a text in the default style, and a text that
\* ends with a blank, in bold, with a font size and colours chosen
SnapNotes ==
  { [EmptyNote EXCEPT !.textPreview = <<"h", "i">>],
    [textPreview |-> <<"h", "i", " ">>, bold |-> TRUE, italic |-> FALSE, fontSize |-> 18,
     textColor |-> <<"#", "f", "8", "7", "1", "7", "1">>,
     bgColor |-> <<"t", "r", "a", "n", "s", "p", "a", "r", "e", "n", "t">>] }

SnapCanvasDrop ==
  OnCanvasDrop(MaxSnapNodes, MaxSnapBubbles, {"message", "time", "note"}, SnapPositions)

SnapDropIntoGroup ==
  HandleDropBubbleIntoGroup(MaxSnapBubbles, GroupIdsOf(nodes), {"message", "time"})

\* onConnect: from the handle of the start node or of a group to the handle
\* of a group
SnapConnect == AddEdge(MaxSnapEdges, {StartNodeId} \cup GroupIdsOf(nodes), GroupIdsOf(nodes))

SnapDragStop == OnNodeDragStop(SnapPositions, SnapSizes)

SnapCommitTitle == CommitTitle(SnapTitles)

SnapSaveNote == HandleSaveNote(SnapNotes)

NextSnapshot ==
  \/ SnapCanvasDrop
  \/ SnapDropIntoGroup
  \/ SnapConnect
  \/ SnapDragStop
  \/ SnapCommitTitle
  \/ SnapSaveNote
  \/ HandleDeleteNoteNode
  \/ DeleteNode

SpecSnapshot == Init /\ [][NextSnapshot]_vars

(***************************************************************************)
(* SpecAnnotations: groups with a step each, note nodes, and the edits of  *)
(* the note nodes                                                          *)
(***************************************************************************)
\* where the nodes are dropped, where they are dragged to, and the size a
\* note node is resized to
AnnotDropPositions == { [x |-> Whole(10), y |-> Whole(20)] }

AnnotSizes == { [width |-> 320, height |-> 180] }

AnnotCanvasDrop ==
  OnCanvasDrop(MaxAnnotNodes, MaxAnnotNodes, {"message", "note"}, AnnotDropPositions)

AnnotConnect == AddEdge(MaxAnnotEdges, {StartNodeId} \cup GroupIdsOf(nodes), GroupIdsOf(nodes))

AnnotDragStop == OnNodeDragStop(SnapPositions, AnnotSizes)

AnnotSaveNote == HandleSaveNote({[EmptyNote EXCEPT !.textPreview = <<"h", "i">>]})

NextAnnotations ==
  \/ AnnotCanvasDrop
  \/ AnnotConnect
  \/ AnnotDragStop
  \/ AnnotSaveNote
  \/ HandleDeleteNoteNode

SpecAnnotations == Init /\ [][NextAnnotations]_vars

(***************************************************************************)
(* SpecImport: one fetched row, whatever it holds, imported into a new     *)
(* flow                                                                    *)
(***************************************************************************)
\* the columns of the table that may hold a value: M1.., then T1..
FetchColumns ==
  [i \in 1..MaxFetchedM |-> buildColumn("M", i)]
    \o [i \in 1..MaxFetchedT |-> buildColumn("T", i)]

\* parseSupabaseRow: one bubble for every column that holds a value, M
\* columns first, each bubble with a new id
ParseSupabaseRow(filled) ==
  LET columns == SelectSeq(FetchColumns, LAMBDA c : c \in filled)
  IN  [k \in 1..Len(columns) |->
         [id |-> k, type |-> IF Head(columns[k]) = "T" THEN "time" ELSE "message",
          supabaseColumn |-> columns[k]]]

FetchedBubbles ==
  { ParseSupabaseRow(filled) :
      filled \in SUBSET { FetchColumns[i] : i \in 1..Len(FetchColumns) } }

\* the column names a snapshot records for one group
M1 == buildColumn("M", 1)
M2 == buildColumn("M", 2)
T1 == buildColumn("T", 1)

RecordedColumns == { <<>>, <<M1, M2>>, <<M2>>, <<T1, M1>> }

NumberedTitle(i) == <<"I", "n", "t", "r", "o">> \o (IF i = 1 THEN <<>> ELSE ToDigits(i))

Reverse(seq) == [i \in 1..Len(seq) |-> seq[Len(seq) + 1 - i]]

\* a current-format document: group i, named by the i-th id, at (10 * i, 20)
\* with the i-th title and the i-th column list; the group order as listed
\* or reversed; with or without edges start -> first, first -> last
PosicaoV2Document(columnLists, reversed, connected) ==
  LET n == Len(columnLists)
      ids == [i \in 1..n |-> NodeIdTable[i]]
      go == IF reversed THEN Reverse(ids) ELSE ids
  IN  JsonText(JObj(
        [v |-> JNum(2),
         go |-> JArr([i \in 1..n |-> JId(go[i])]),
         g |-> JObj([id \in { ids[i] : i \in 1..n } |->
                  LET i == CHOOSE j \in 1..n : ids[j] = id
                  IN  JArr(<< JNum(10 * i), JNum(20), JStr(NumberedTitle(i)),
                              JArr([k \in 1..Len(columnLists[i]) |->
                                      JStr(columnLists[i][k])]) >>)]),
         e |-> JArr(IF connected
                    THEN << JArr(<<JId(StartNodeId), JId(go[1])>>),
                            JArr(<<JId(go[1]), JId(go[n])>>) >>
                    ELSE <<>>)]))

ColumnListsUpTo(n) == UNION { [1..k -> RecordedColumns] : k \in 1..n }

PosicaoV2Documents ==
  { PosicaoV2Document(columnLists, reversed, connected) :
      columnLists \in ColumnListsUpTo(MaxSnapshotGroups),
      reversed \in BOOLEAN, connected \in BOOLEAN }

\* the decimal rendering of a whole number
NumberText(n) == IF n < 0 THEN <<"-">> \o ToDigits(0 - n) ELSE ToDigits(n)

RECURSIVE Join(_, _)
Join(parts, separator) ==
  IF parts = <<>> THEN <<>>
  ELSE IF Len(parts) = 1 THEN parts[1]
  ELSE parts[1] \o separator \o Join(Tail(parts), separator)

\* a legacy document v1|g:<title>@<x>,<y>{<slot>,...};... as written
LegacyEntryText(entry) ==
  <<"g", ":">> \o entry.title \o <<"@">> \o NumberText(entry.x) \o <<",">>
    \o NumberText(entry.y) \o <<"{">> \o Join(entry.slots, <<",">>) \o <<"}">>

LegacyDocument(entries) ==
  PlainText(<<"v", "1", "|">>
              \o Join([i \in 1..Len(entries) |-> LegacyEntryText(entries[i])], <<";">>))

LegacyEntries ==
  [title : { <<"I", "n", "t", "r", "o">>, <<"F", "i", "m", " ", "2">> },
   x : {10}, y : {20, -5},
   slots : RecordedColumns]

LegacyEntryLists == UNION { [1..k -> LegacyEntries] : k \in 1..MaxSnapshotGroups }

LegacyDocuments == { LegacyDocument(entries) : entries \in LegacyEntryLists }

\* texts that are no document of a supported version
NotValidJson == PlainText(<<"{", "n", "o", "t", " ", "v", "a", "l", "i", "d", " ",
                            "j", "s", "o", "n">>)

OneGroup(columns) ==
  JObj([g1 |-> JArr(<< JNum(10), JNum(20), JStr(NumberedTitle(1)), columns >>)])

MalformedPosicao ==
  << NullText,
     PlainText(<<>>),
     PlainText(<<" ">>),
     NotValidJson,
     PlainText(<<"v", "2", "|", "g", ":", "A">>),
     PlainText(<<"v", "1", "|">>),
     PlainText(<<"v", "1", "|", "x", ":", "A">>),
     JsonText(JArr(<<JNum(2)>>)),
     JsonText(JObj([v |-> JNum(3), go |-> JArr(<<JId("g1")>>),
                    g |-> OneGroup(JArr(<<JStr(M1)>>))])),
     JsonText(JObj([go |-> JArr(<<JId("g1")>>), g |-> OneGroup(JArr(<<JStr(M1)>>))])),
     JsonText(JObj([v |-> JStr(<<"2">>), go |-> JArr(<<JId("g1")>>),
                    g |-> OneGroup(JArr(<<JStr(M1)>>))])),
     JsonText(JObj([v |-> JNum(2)])),
     JsonText(JObj([v |-> JNum(2), go |-> JNum(5), g |-> JNull, e |-> JNull])),
     JsonText(JObj([v |-> JNum(2), go |-> JArr(<<JId("g1")>>), g |-> JArr(<<>>)])),
     JsonText(JObj([v |-> JNum(2), go |-> JArr(<<JId("g1")>>),
                    g |-> JObj([g1 |-> JArr(<<JNum(10), JNum(20)>>)])])),
     JsonText(JObj([v |-> JNum(2), go |-> JArr(<<JId("g1")>>),
                    g |-> OneGroup(JArr(<<JStr(M1)>>)), e |-> JNum(5)])),
     JsonText(JObj([v |-> JNum(2), go |-> JArr(<<JId("g1")>>),
                    g |-> OneGroup(JStr(M1))])),
     JsonText(JObj([v |-> JNum(2), go |-> JArr(<<JId("g1")>>),
                    g |-> OneGroup(JNum(5))])) >>

BlkEntry(id, x, text) ==
  JArr(<< id, x, JNum(20), JNum(280), JNum(180), JNum(14), JStr(DEFAULT_TEXT_COLOR),
          JStr(DEFAULT_BG_COLOR), JNum(0), JNum(1), text >>)

BlkTexts ==
  << NullText,
     PlainText(<<" ">>),
     NotValidJson,
     JsonText(JArr(<<>>)),
     JsonText(JObj([v |-> JNum(2), n |-> JArr(<<BlkEntry(JId("NOTE:g1"), JNum(10),
                                                         JStr(<<"h", "i">>))>>)])),
     JsonText(JObj([v |-> JNum(1), n |-> JNum(5)])),
     JsonText(JObj([v |-> JNum(1)])),
     JsonText(JObj([v |-> JNum(1), n |-> JArr(<<>>)])),
     JsonText(JObj([v |-> JNum(1), n |-> JArr(<<BlkEntry(JId("NOTE:g1"), JNum(10),
                                                         JStr(<<"h", "i">>))>>)])),
     JsonText(JObj([v |-> JNum(1), n |-> JArr(<<JNum(5),
                                                BlkEntry(JId("NOTE:g1"), JNum(10),
                                                         JStr(<<"h", "i">>))>>)])),
     JsonText(JObj([v |-> JNum(1), n |-> JArr(<<BlkEntry(JId("g1"), JNum(10),
                                                         JStr(<<"h", "i">>))>>)])),
     JsonText(JObj([v |-> JNum(1), n |-> JArr(<<BlkEntry(JId("NOTE:g1"), JStr(<<"x">>),
                                                         JNum(7))>>)])) >>

\* the rows: every snapshot with every set of fetched bubbles and no notes,
\* and every BLK text next to one snapshot
Rows ==
  { [posicao |-> posicao, blk |-> NullText, bubbles |-> bubbles] :
      posicao \in PosicaoV2Documents \cup LegacyDocuments
                    \cup { MalformedPosicao[i] : i \in 1..Len(MalformedPosicao) },
      bubbles \in FetchedBubbles }
  \cup
  { [posicao |-> PosicaoV2Document(<< <<M1, M2>> >>, FALSE, TRUE), blk |-> BlkTexts[i],
     bubbles |-> ParseSupabaseRow({M1, M2})] : i \in 1..Len(BlkTexts) }

InitImport ==
  /\ row \in Rows
  /\ nodes = << StartNode([x |-> Whole(50), y |-> Whole(50)]) >>
  /\ edges = <<>>
  /\ nodeCtr = 0
  /\ bubbleCtr = 0
  /\ edgeCtr = 0
  /\ last = Last("parseSupabaseRow", "", 0, <<>>, "", {})

NextImport == HandleImport

SpecImport == InitImport /\ [][NextImport]_vars

(***************************************************************************)
(* The step payload codec: buildSupabaseValueForBubble (export) and        *)
(* parseColumnValue / parseTColumn (fetch)                                 *)
(***************************************************************************)
NODE_PREFIXES ==
  "message" :> <<"M", "S", "G", "-">> @@ "message-utm" :> <<"M", "S", "G", "-", "U", "T", "M", "-">> @@ "message-time" :> <<"M", "S", "G", "-", "T", "E", "M", "P", "O", "-">>
  @@ "photo" :> <<"F", "T", "-">> @@ "photo-caption" :> <<"F", "T", "-", "C", "-">> @@ "photo-caption-time" :> <<"F", "T", "-", "C", "-", "T", "-">>
  @@ "video" :> <<"V", "D", "-">> @@ "video-caption" :> <<"V", "D", "-", "C", "-">> @@ "video-caption-time" :> <<"V", "D", "-", "C", "-", "T", "-">>
  @@ "audio" :> <<"A", "U", "-">> @@ "time" :> <<"T", "-">> @@ "lead-respond" :> <<"L", "D">> @@ "hook" :> <<"G", "A", "N", "C", "H", "O", "-">>
  @@ "delete-hook" :> <<"A", "P", "A", "G", "A", "R", "-", "G", "A", "N", "C", "H", "O", "-">> @@ "link-pix" :> <<"L", "K", "-", "P", "I", "X">>
  @@ "deliverable" :> <<>> @@ "reminder" :> <<>> @@ "note" :> <<>>

NODE_LABELS ==
  "message" :> "Mensagem" @@ "message-utm" :> "Mensagem + UTM"
  @@ "message-time" :> "Mensagem + Tempo" @@ "photo" :> "Foto"
  @@ "photo-caption" :> "Foto + Caption" @@ "photo-caption-time" :> "Foto + Caption + Tempo"
  @@ "video" :> "Vídeo" @@ "video-caption" :> "Vídeo + Caption"
  @@ "video-caption-time" :> "Vídeo + Caption + Tempo" @@ "audio" :> "Áudio"
  @@ "time" :> "Tempo" @@ "lead-respond" :> "Lead Responde" @@ "hook" :> "Gancho"
  @@ "delete-hook" :> "Apagar Gancho" @@ "link-pix" :> "Link PIX"
  @@ "deliverable" :> "Entregável" @@ "reminder" :> "Relembrar"

\* the flows of the group (availableFlows)
availableFlows == << [id |-> <<"f", "1">>, name |-> <<"F", "r", "o", "n", "t">>] >>

\* availableFlows.find((f) => f.id === key)?.name and the same by name; the
\* empty string when no flow is found or no key is given
FlowNameById(key) ==
  IF \E i \in 1..Len(availableFlows) : availableFlows[i].id = key /\ key # <<>>
  THEN availableFlows[CHOOSE i \in 1..Len(availableFlows) : availableFlows[i].id = key].name
  ELSE <<>>

FlowNameByName(key) ==
  IF \E i \in 1..Len(availableFlows) : availableFlows[i].name = key /\ key # <<>>
  THEN key ELSE <<>>

\* a || b on strings
Or(a, b) == IF a = <<>> THEN b ELSE a

\* data.field || '' : the field of the payload, the empty string without it
Field(data, f) == IF f \in DOMAIN data THEN data[f] ELSE <<>>

\* data.hookAction and the like: the action chosen, "" without one
ActionField(data, f) == IF f \in DOMAIN data THEN data[f] ELSE ""

\* data.field ?? fallback and data.field || 0 on numbers
NumberField(data, f, fallback) == IF f \in DOMAIN data THEN data[f] ELSE fallback

\* s.slice(n)
Slice(s, n) == SubSeq(s, n + 1, Len(s))

\* parts[i] || "", counted from 1
PartAt(parts, i) == IF i <= Len(parts) THEN parts[i] ELSE <<>>

\* String(n).padStart(2, '0')
padStart2(n) == IF n < 10 THEN <<"0">> \o ToDigits(n) ELSE ToDigits(n)

\* s.replace(/;/g, ',')
RECURSIVE ReplaceSemicolons(_)
ReplaceSemicolons(s) ==
  IF s = <<>> THEN <<>>
  ELSE <<IF Head(s) = ";" THEN "," ELSE Head(s)>> \o ReplaceSemicolons(Tail(s))

\* s.indexOf(sub), counted from 1; 0 when sub is not in s
IndexOfSub(s, sub) ==
  IF \E i \in 1..(Len(s) - Len(sub) + 1) : SubSeq(s, i, i + Len(sub) - 1) = sub
  THEN CHOOSE i \in 1..(Len(s) - Len(sub) + 1) :
         /\ SubSeq(s, i, i + Len(sub) - 1) = sub
         /\ \A j \in 1..(i - 1) : SubSeq(s, j, j + Len(sub) - 1) # sub
  ELSE 0

\* the destination of a hook or reminder: the name of the flow with that id,
\* or with that name, or the content, or the key itself; trimmed
DestName(data, key) ==
  trim(Or(FlowNameById(Field(data, key)),
          Or(FlowNameByName(Field(data, key)),
             Or(Field(data, "content"), Field(data, key)))))

SerializedMessageRule(r) ==
  r.startTime \o <<"-">> \o r.endTime \o <<"-">> \o ReplaceSemicolons(r.content)

SerializedMediaRule(r) ==
  r.startTime \o <<"|">> \o r.endTime \o <<"|">> \o r.mediaUrl \o <<"|">> \o r.caption

SerializedMessageRules(rules) ==
  Join([i \in 1..Len(rules) |-> SerializedMessageRule(rules[i])], <<";">>)

SerializedMediaRules(rules) ==
  Join([i \in 1..Len(rules) |-> SerializedMediaRule(rules[i])], <<";">>)

HookValue(data) ==
  IF ActionField(data, "hookAction") = "delete"
  THEN <<"A", "P", "A", "G", "A", "R", "-", "G", "A", "N", "C", "H", "O", "-">> \o DestName(data, "hookFlowId")
  ELSE NODE_PREFIXES["hook"]
         \o (IF DestName(data, "hookFlowId") # <<>>
             THEN DestName(data, "hookFlowId") \o <<"-">> ELSE <<>>)
         \o padStart2(NumberField(data, "hookHours", 0)) \o <<":">>
         \o padStart2(NumberField(data, "hookMinutes", 0))

ReminderValue(data) ==
  IF ActionField(data, "reminderAction") = "add"
  THEN <<"A", "D", "D", "-", "R", "E", "L", "-">> \o DestName(data, "reminderFlowId") \o <<"-">>
         \o (IF "reminderHours" \in DOMAIN data /\ "reminderMinutes" \in DOMAIN data
             THEN padStart2(data.reminderHours) \o <<":">> \o padStart2(data.reminderMinutes)
             ELSE <<"_", "_", ":", "_", "_">>)
  ELSE <<"D", "E", "L", "-", "R", "E", "L", "-">> \o DestName(data, "reminderFlowId")

MessageUtmValue(data) ==
  NODE_PREFIXES["message-utm"]
    \o trim(Field(data, "content") \o <<" ">> \o Field(data, "utm"))

\* buildSupabaseValueForBubble: the cell string of a step
buildSupabaseValueForBubble(bubble) ==
  CASE bubble.type = "time" ->
         NODE_PREFIXES["time"] \o NumberText(NumberField(bubble.data, "timeMin", 5))
           \o <<"-">> \o NumberText(NumberField(bubble.data, "timeMax", 10))
    [] bubble.type = "message-time" ->
         NODE_PREFIXES["message-time"]
           \o SerializedMessageRules(Field(bubble.data, "timeMessageRules"))
    [] bubble.type = "photo-caption-time" ->
         <<"F", "T", "-", "C", "-", "T", ";">> \o SerializedMediaRules(Field(bubble.data, "timeMediaRules"))
    [] bubble.type = "video-caption-time" ->
         <<"V", "D", "-", "C", "-", "T", ";">> \o SerializedMediaRules(Field(bubble.data, "timeMediaRules"))
    [] bubble.type = "message" -> NODE_PREFIXES["message"] \o Field(bubble.data, "content")
    [] bubble.type = "message-utm" -> MessageUtmValue(bubble.data)
    [] bubble.type \in {"photo", "video", "audio"} ->
         NODE_PREFIXES[bubble.type] \o Field(bubble.data, "mediaUrl")
    [] bubble.type \in {"photo-caption", "video-caption"} ->
         NODE_PREFIXES[bubble.type]
           \o trim(Field(bubble.data, "mediaUrl") \o <<" ">> \o Field(bubble.data, "caption"))
    [] bubble.type \in {"lead-respond", "link-pix"} -> NODE_PREFIXES[bubble.type]
    [] bubble.type = "hook" -> HookValue(bubble.data)
    [] bubble.type = "delete-hook" ->
         NODE_PREFIXES["delete-hook"] \o DestName(bubble.data, "hookFlowId")
    [] bubble.type = "deliverable" ->
         (IF ActionField(bubble.data, "deliverableAction") = "add"
          THEN <<"A", "D", "D", "-", "E", "N", "T", "R", "E", "G", "A", "-", "F", "L", "U", "X", "O", "-">> ELSE <<"D", "E", "L", "-", "E", "N", "T", "R", "E", "G", "A", "-", "F", "L", "U", "X", "O", "-">>)
           \o trim(FlowNameById(Field(bubble.data, "deliverableFlowId")))
    [] bubble.type = "reminder" -> ReminderValue(bubble.data)
    [] OTHER -> NODE_PREFIXES[bubble.type]

\* Number(s) of a part of a split: NaN for a part that is missing or holds a
\* character that is no digit, zero for an empty part; the parts read here
\* hold no sign, point or exponent
NaN == [nan |-> TRUE, n |-> 0]

NumberOfPart(parts, i) ==
  IF i > Len(parts) THEN NaN
  ELSE IF \A k \in 1..Len(trim(parts[i])) : IsDigit(trim(parts[i])[k])
       THEN [nan |-> FALSE, n |-> DigitsValue(trim(parts[i]), 0)]
       ELSE NaN

\* the data every decoded step starts from
DecodedData(type, columnName) ==
  [label |-> NODE_LABELS[type], supabaseColumn |-> toUpperCase(columnName)]

DecodedStep(type, columnName, fields) ==
  [type |-> type, data |-> fields @@ DecodedData(type, columnName)]

\* isNaN(min) ? 5 : min and isNaN(max) ? 10 : max of "min-max"
TimeFields(timeStr) ==
  [timeMin |-> IF NumberOfPart(Split(timeStr, "-"), 1).nan THEN 5
               ELSE NumberOfPart(Split(timeStr, "-"), 1).n,
   timeMax |-> IF NumberOfPart(Split(timeStr, "-"), 2).nan THEN 10
               ELSE NumberOfPart(Split(timeStr, "-"), 2).n]

\* content.match(/-(\d{1,2}):(\d{1,2})$/): the hyphen the match starts at,
\* counted from 1; 0 without a match
IsOneOrTwoDigits(s) == Len(s) \in 1..2 /\ \A k \in 1..Len(s) : IsDigit(s[k])

TimeMatch(content) ==
  IF /\ LastIndexOf(content, "-") > 0
     /\ Len(Split(Slice(content, LastIndexOf(content, "-")), ":")) = 2
     /\ \A k \in 1..2 :
          IsOneOrTwoDigits(Split(Slice(content, LastIndexOf(content, "-")), ":")[k])
  THEN LastIndexOf(content, "-") ELSE 0

\* the flow name before the match, and parseInt(...) || 0 of its two groups
MatchedFlowName(content) == SubSeq(content, 1, TimeMatch(content) - 1)

MatchedNumber(content, k) ==
  DigitsValue(Split(Slice(content, TimeMatch(content)), ":")[k], 0)

MessageUtmFields(content, parts) ==
  [content |-> Or(Join(SubSeq(parts, 1, Len(parts) - 1), <<" ">>), content),
   utm |-> IF Len(parts) > 1 THEN parts[Len(parts)] ELSE <<>>]

MessageRule(parts) ==
  [startTime |-> Or(PartAt(parts, 1), <<"0", "0", ":", "0", "0">>), endTime |-> Or(PartAt(parts, 2), <<"2", "3", ":", "5", "9">>),
   content |-> Join(SubSeq(parts, 3, Len(parts)), <<"-">>)]

MessageTimeFields(rulesStr) ==
  [timeMessageRules |->
     [i \in 1..Len(Split(rulesStr, ";")) |-> MessageRule(Split(Split(rulesStr, ";")[i], "-"))]]

MediaRule(parts) ==
  [startTime |-> Or(PartAt(parts, 1), <<"0", "0", ":", "0", "0">>), endTime |-> Or(PartAt(parts, 2), <<"2", "3", ":", "5", "9">>),
   mediaUrl |-> PartAt(parts, 3), caption |-> PartAt(parts, 4)]

\* the url from "http" up to the first blank, the caption after that blank
UrlAndCaption(start, end, urlAndCaption) ==
  IF IndexOf(urlAndCaption, " ") # 0
  THEN [startTime |-> start, endTime |-> end,
        mediaUrl |-> SubSeq(urlAndCaption, 1, IndexOf(urlAndCaption, " ") - 1),
        caption |-> Slice(urlAndCaption, IndexOf(urlAndCaption, " "))]
  ELSE [startTime |-> start, endTime |-> end, mediaUrl |-> urlAndCaption, caption |-> <<>>]

LegacyMediaRuleOf(start, end, fullStr) ==
  IF IndexOfSub(fullStr, <<"h", "t", "t", "p">>) # 0
  THEN UrlAndCaption(start, end, Slice(fullStr, IndexOfSub(fullStr, <<"h", "t", "t", "p">>) - 1))
  ELSE [startTime |-> start, endTime |-> end, mediaUrl |-> fullStr, caption |-> <<>>]

\* a rule start-end-url[ caption] of the hyphen-based format
LegacyMediaRule(r, parts) ==
  IF Len(parts) >= 3
  THEN LegacyMediaRuleOf(Or(parts[1], <<"0", "0", ":", "0", "0">>), Or(parts[2], <<"2", "3", ":", "5", "9">>),
                         Join(SubSeq(parts, 3, Len(parts)), <<"-">>))
  ELSE [startTime |-> <<"0", "0", ":", "0", "0">>, endTime |-> <<"2", "3", ":", "5", "9">>, mediaUrl |-> r, caption |-> <<>>]

\* rulesStr.split(";").filter(Boolean)
RuleStrings(rulesStr) == SelectSeq(Split(rulesStr, ";"), LAMBDA r : r # <<>>)

MediaTimeFields(rules) ==
  [timeMediaRules |-> [i \in 1..Len(rules) |-> MediaRule(Split(rules[i], "|"))]]

LegacyMediaTimeFields(rules) ==
  [timeMediaRules |-> [i \in 1..Len(rules) |-> LegacyMediaRule(rules[i], Split(rules[i], "-"))]]

MediaCaptionFields(parts) ==
  [mediaUrl |-> PartAt(parts, 1), caption |-> Join(SubSeq(parts, 2, Len(parts)), <<" ">>)]

ReminderAddFields(content) ==
  IF TimeMatch(content) # 0
  THEN [reminderAction |-> "add", reminderFlowId |-> MatchedFlowName(content),
        content |-> MatchedFlowName(content),
        reminderHours |-> MatchedNumber(content, 1),
        reminderMinutes |-> MatchedNumber(content, 2)]
  ELSE [reminderAction |-> "add", reminderFlowId |-> content, content |-> content]

ReminderDeleteFields(content) ==
  IF TimeMatch(content) # 0
  THEN [reminderAction |-> "delete", reminderFlowId |-> MatchedFlowName(content),
        content |-> MatchedFlowName(content)]
  ELSE [reminderAction |-> "delete", reminderFlowId |-> content, content |-> content]

HookAddFields(content) ==
  IF TimeMatch(content) # 0
  THEN [hookAction |-> "add", hookFlowId |-> MatchedFlowName(content),
        content |-> MatchedFlowName(content),
        hookHours |-> MatchedNumber(content, 1), hookMinutes |-> MatchedNumber(content, 2)]
  ELSE [hookAction |-> "add", hookFlowId |-> content, content |-> content,
        hookHours |-> 0, hookMinutes |-> 0]

\* parseColumnValue with the photo kind tested before the photo + caption kinds
ParseTrimmedShortestFirst(val, columnName) ==
  IF StartsWith(val, <<"F", "T", "-">>)
  THEN DecodedStep("photo", columnName, [mediaUrl |-> Slice(val, 3)])
  ELSE IF StartsWith(val, <<"M", "S", "G", "-">>)
  THEN DecodedStep("message", columnName, [content |-> Slice(val, 4)])
  ELSE DecodedStep("message", columnName, [content |-> val])

\* the chain of prefix tests of parseColumnValue on the trimmed value
ParseTrimmed(val, columnName) ==
  IF StartsWith(val, <<"M", "S", "G", "-", "U", "T", "M", "-">>)
  THEN DecodedStep("message-utm", columnName,
               MessageUtmFields(Slice(val, 8), Split(Slice(val, 8), " ")))
  ELSE IF StartsWith(val, <<"M", "S", "G", "-", "T", "E", "M", "P", "O", "-">>)
  THEN DecodedStep("message-time", columnName, MessageTimeFields(Slice(val, 10)))
  ELSE IF StartsWith(val, <<"M", "S", "G", "-">>)
  THEN DecodedStep("message", columnName, [content |-> Slice(val, 4)])
  ELSE IF StartsWith(val, <<"F", "T", "-", "C", "-", "T", ";">>)
  THEN DecodedStep("photo-caption-time", columnName, MediaTimeFields(RuleStrings(Slice(val, 7))))
  ELSE IF StartsWith(val, <<"F", "T", "-", "C", "-", "T", "-">>)
  THEN DecodedStep("photo-caption-time", columnName,
               LegacyMediaTimeFields(RuleStrings(Slice(val, 7))))
  ELSE IF StartsWith(val, <<"V", "D", "-", "C", "-", "T", ";">>)
  THEN DecodedStep("video-caption-time", columnName, MediaTimeFields(RuleStrings(Slice(val, 7))))
  ELSE IF StartsWith(val, <<"V", "D", "-", "C", "-", "T", "-">>)
  THEN DecodedStep("video-caption-time", columnName,
               LegacyMediaTimeFields(RuleStrings(Slice(val, 7))))
  ELSE IF StartsWith(val, <<"F", "T", "-", "C", "-">>)
  THEN DecodedStep("photo-caption", columnName, MediaCaptionFields(Split(Slice(val, 5), " ")))
  ELSE IF StartsWith(val, <<"F", "T", "-">>)
  THEN DecodedStep("photo", columnName, [mediaUrl |-> Slice(val, 3)])
  ELSE IF StartsWith(val, <<"V", "D", "-", "C", "-">>)
  THEN DecodedStep("video-caption", columnName, MediaCaptionFields(Split(Slice(val, 5), " ")))
  ELSE IF StartsWith(val, <<"V", "D", "-">>)
  THEN DecodedStep("video", columnName, [mediaUrl |-> Slice(val, 3)])
  ELSE IF StartsWith(val, <<"A", "U", "-">>)
  THEN DecodedStep("audio", columnName, [mediaUrl |-> Slice(val, 3)])
  ELSE IF StartsWith(val, <<"T", "-">>)
  THEN DecodedStep("time", columnName, TimeFields(Slice(val, 2)))
  ELSE IF val = <<"L", "D">>
  THEN DecodedStep("lead-respond", columnName, <<>>)
  ELSE IF val = <<"L", "K", "-", "P", "I", "X">>
  THEN DecodedStep("link-pix", columnName, <<>>)
  ELSE IF StartsWith(val, <<"A", "D", "D", "-", "E", "N", "T", "R", "E", "G", "A", "-", "F", "L", "U", "X", "O", "-">>)
  THEN DecodedStep("deliverable", columnName,
               [deliverableAction |-> "add", content |-> Slice(val, 18)])
  ELSE IF StartsWith(val, <<"D", "E", "L", "-", "E", "N", "T", "R", "E", "G", "A", "-", "F", "L", "U", "X", "O", "-">>)
  THEN DecodedStep("deliverable", columnName,
               [deliverableAction |-> "delete", content |-> Slice(val, 18)])
  ELSE IF StartsWith(val, <<"A", "D", "D", "-", "R", "E", "L", "-">>)
  THEN DecodedStep("reminder", columnName, ReminderAddFields(Slice(val, 8)))
  ELSE IF StartsWith(val, <<"D", "E", "L", "-", "R", "E", "L", "-">>)
  THEN DecodedStep("reminder", columnName, ReminderDeleteFields(Slice(val, 8)))
  ELSE IF StartsWith(val, <<"A", "P", "A", "G", "A", "R", "-", "G", "A", "N", "C", "H", "O", "-">>)
  THEN DecodedStep("hook", columnName, [hookAction |-> "delete", content |-> Slice(val, 14)])
  ELSE IF StartsWith(val, <<"G", "A", "N", "C", "H", "O", "-">>)
  THEN DecodedStep("hook", columnName, HookAddFields(Slice(val, 7)))
  ELSE DecodedStep("message", columnName, [content |-> val])

\* what the parsers return for a value that is empty or blank
NoBubble == [type |-> "null", data |-> <<>>]

\* parseColumnValue: null for an empty or blank value, otherwise the step
\* the trimmed value decodes to
parseColumnValue(value, columnName) ==
  IF trim(value) = <<>> THEN NoBubble ELSE ParseTrimmed(trim(value), columnName)

\* parseTColumn: "T-5-10" or "5-10"
parseTColumn(value, columnName) ==
  IF trim(value) = <<>> THEN NoBubble
  ELSE DecodedStep("time", columnName,
               TimeFields(IF StartsWith(trim(value), <<"T", "-">>) THEN Slice(trim(value), 2)
                          ELSE trim(value)))

(***************************************************************************)
(* The codec on its own: a step of the editor is written to its cell and   *)
(* the cell is read back; a cell of the table is read                      *)
(***************************************************************************)
Rule1 == [startTime |-> <<"0", "0", ":", "0", "0">>, endTime |-> <<"2", "3", ":", "5", "9">>, content |-> <<"a", "-", "b">>]
Rule2 == [startTime |-> <<"0", "8", ":", "0", "0">>, endTime |-> <<"1", "2", ":", "3", "0">>, content |-> <<"h", "i">>]
MediaRule1 == [startTime |-> <<"0", "0", ":", "0", "0">>, endTime |-> <<"2", "3", ":", "5", "9">>, mediaUrl |-> <<"h", "t", "t", "p", ":", "/", "/", "p">>,
               caption |-> <<"c", " ", "d">>]
MediaRule2 == [startTime |-> <<"0", "8", ":", "0", "0">>, endTime |-> <<"1", "2", ":", "3", "0">>, mediaUrl |-> <<"h", "t", "t", "p", ":", "/", "/", "q">>,
               caption |-> <<>>]

\* payloads the step editor saves (EditBubbleModal.handleSave accepts them)
ContentPayloads ==
  { [type |-> "message", data |-> [content |-> c]] : c \in { <<"h", "i">>, <<"a", " ", "b">>, <<>> } }
  \cup { [type |-> "message-utm", data |-> [content |-> c]] : c \in { <<"h", "i">>, <<"a", " ", "b">> } }
  \cup { [type |-> "message-utm", data |-> [content |-> <<"a", " ", "b">>, utm |-> <<"u", "=", "1">>]] }
  \cup { [type |-> "message-time", data |-> [timeMessageRules |-> rules]] :
           rules \in { <<Rule1>>, <<Rule2>>, <<Rule1, Rule2>> } }
  \cup { [type |-> type, data |-> [timeMediaRules |-> rules]] :
           type \in {"photo-caption-time", "video-caption-time"},
           rules \in { <<MediaRule1>>, <<MediaRule2>>, <<MediaRule1, MediaRule2>> } }
  \cup { [type |-> type, data |-> [mediaUrl |-> <<"h", "t", "t", "p", ":", "/", "/", "p">>]] :
           type \in {"photo", "video", "audio"} }
  \cup { [type |-> type, data |-> [mediaUrl |-> <<"h", "t", "t", "p", ":", "/", "/", "p">>, caption |-> c]] :
           type \in {"photo-caption", "video-caption"}, c \in { <<"c", " ", "d">>, <<>> } }
  \cup { [type |-> type, data |-> <<>>] : type \in {"lead-respond", "link-pix"} }
  \cup { [type |-> "hook",
          data |-> [hookAction |-> "add", hookFlowId |-> flow, hookHours |-> h,
                    hookMinutes |-> m]] :
           flow \in { <<"f", "1">>, <<"F", "r", "o", "n", "t">> }, h \in {0, 12}, m \in {5, 30} }
  \cup { [type |-> "hook", data |-> [hookAction |-> "delete", hookFlowId |-> <<"f", "1">>]],
         [type |-> "delete-hook", data |-> [hookFlowId |-> <<"f", "1">>]] }
  \cup { [type |-> "deliverable",
          data |-> [deliverableAction |-> action, deliverableFlowId |-> <<"f", "1">>]] :
           action \in {"add", "delete"} }
  \cup { [type |-> "reminder",
          data |-> [reminderAction |-> "add", reminderFlowId |-> <<"f", "1">>,
                    reminderHours |-> h, reminderMinutes |-> m]] :
           h \in {0, 9}, m \in {0, 45} }
  \cup { [type |-> "reminder", data |-> [reminderAction |-> "delete", reminderFlowId |-> <<"f", "1">>]] }

TimePayloads ==
  { [type |-> "time", data |-> [timeMin |-> min, timeMax |-> max]] :
      min \in {0, 5}, max \in {10, 120} }
  \cup { [type |-> "time", data |-> <<>>] }

\* the step with the slot the allocator gave it
WithColumn(bubble, column) ==
  [bubble EXCEPT !.data = [supabaseColumn |-> column] @@ bubble.data]

Payloads ==
  { WithColumn(b, M1) : b \in ContentPayloads } \cup { WithColumn(b, T1) : b \in TimePayloads }

\* the tokens parseColumnValue tests a value for
RecognisedPrefixes ==
  { <<"M", "S", "G", "-", "U", "T", "M", "-">>, <<"M", "S", "G", "-", "T", "E", "M", "P", "O", "-">>, <<"M", "S", "G", "-">>, <<"F", "T", "-", "C", "-", "T", ";">>, <<"F", "T", "-", "C", "-", "T", "-">>, <<"V", "D", "-", "C", "-", "T", ";">>, <<"V", "D", "-", "C", "-", "T", "-">>,
    <<"F", "T", "-", "C", "-">>, <<"F", "T", "-">>, <<"V", "D", "-", "C", "-">>, <<"V", "D", "-">>, <<"A", "U", "-">>, <<"T", "-">>, <<"L", "D">>, <<"L", "K", "-", "P", "I", "X">>,
    <<"A", "D", "D", "-", "E", "N", "T", "R", "E", "G", "A", "-", "F", "L", "U", "X", "O", "-">>, <<"D", "E", "L", "-", "E", "N", "T", "R", "E", "G", "A", "-", "F", "L", "U", "X", "O", "-">>, <<"A", "D", "D", "-", "R", "E", "L", "-">>, <<"D", "E", "L", "-", "R", "E", "L", "-">>,
    <<"A", "P", "A", "G", "A", "R", "-", "G", "A", "N", "C", "H", "O", "-">>, <<"G", "A", "N", "C", "H", "O", "-">> }

\* values found in the cells of a row: every token followed by nothing, by a
\* text, by rules in either format; and values that start with no token
CellTails ==
  { <<>>, <<"x", " ", "y">>, <<"0", "0", ":", "0", "0", "-", "2", "3", ":", "5", "9", "-", "h", "t", "t", "p", ":", "/", "/", "p", " ", "c">>, <<"0", "0", ":", "0", "0", "|", "2", "3", ":", "5", "9", "|", "h", "t", "t", "p", ":", "/", "/", "p", "|", "c">>, <<"F", "r", "o", "n", "t", "-", "0", "1", ":", "0", "5">> }

CellValues ==
  { prefix \o tail : prefix \in RecognisedPrefixes, tail \in CellTails }
  \cup { <<"h", "e", "l", "l", "o">>, <<" ", "h", "e", "l", "l", "o", " ">>, <<" ">>, <<"m", "s", "g", "-", "x">>, <<"X", "-", "1">>, <<" ", "M", "S", "G", "-", "U", "T", "M", "-", "a", " ", "b">>, <<"5", "-", "1", "0">> }

NoCell == [bubble |-> NoBubble, column |-> <<>>, value |-> <<>>, parsed |-> NoBubble]

InitCodec ==
  /\ nodes = << StartNode([x |-> Whole(50), y |-> Whole(50)]) >>
  /\ edges = <<>>
  /\ nodeCtr = 0
  /\ bubbleCtr = 0
  /\ edgeCtr = 0
  /\ row \in { [NoCell EXCEPT !.bubble = b] : b \in Payloads }
            \cup { [NoCell EXCEPT !.column = column, !.value = value] :
                     column \in {M1, T1}, value \in CellValues }
  /\ last = Last(IF row.bubble = NoBubble THEN "fetch" ELSE "updateBubble",
                 "", 0, row.column, "", {})

\* handlePublish, for one step: rowData[col] = buildSupabaseValueForBubble(bubble)
BuildCell ==
  /\ last.op = "updateBubble"
  /\ row' = [row EXCEPT !.column = toUpperCase(row.bubble.data.supabaseColumn),
                        !.value = buildSupabaseValueForBubble(row.bubble)]
  /\ last' = Last("handlePublish", "", 0, row'.column, row.bubble.type, {})
  /\ UNCHANGED <<nodes, edges, nodeCtr, bubbleCtr, edgeCtr>>

\* parseSupabaseRow, for one cell: a value that is not empty is parsed by
\* parseColumnValue in a column M and by parseTColumn in a column T
ParseCell ==
  /\ last.op \in {"handlePublish", "fetch"}
  /\ row' = [row EXCEPT !.parsed =
               IF row.value = <<>> THEN NoBubble
               ELSE IF Head(row.column) = "T" THEN parseTColumn(row.value, row.column)
               ELSE parseColumnValue(row.value, row.column)]
  /\ last' = Last("parseSupabaseRow:cell", "", 0, row.column, row'.parsed.type, {})
  /\ UNCHANGED <<nodes, edges, nodeCtr, bubbleCtr, edgeCtr>>

NextCodec == BuildCell \/ ParseCell

SpecCodec == InitCodec /\ [][NextCodec]_vars

(***************************************************************************)
(* Publishing: handlePublish writes the row of the flow to the table       *)
(***************************************************************************)
\* detectDuplicateColumns: the slots that more than one bubble holds
detectDuplicateColumns(bubbles) ==
  { currentNormalized(bubbles[i].supabaseColumn) :
      i \in { j \in 1..Len(bubbles) :
                /\ currentNormalized(bubbles[j].supabaseColumn) # <<>>
                /\ \E k \in 1..Len(bubbles) :
                     /\ k # j
                     /\ currentNormalized(bubbles[k].supabaseColumn)
                          = currentNormalized(bubbles[j].supabaseColumn) } }

\* the step handed to buildSupabaseValueForBubble: a bubble of the canvas
\* carries its kind and its column, and the data of a bubble just dropped
StepOf(bubble) ==
  [type |-> bubble.type, data |-> [supabaseColumn |-> bubble.supabaseColumn]]

\* the keys M1..M50 and T1..T50
AllSlots == { buildColumn(kind, i) : kind \in {"M", "T"}, i \in 1..COLUMN_LIMIT }

\* bubble.data.supabaseColumn.toUpperCase() of every bubble
HeldKeys(bubbles) == { toUpperCase(bubbles[i].supabaseColumn) : i \in 1..Len(bubbles) }

\* the last bubble written under the key
BubbleOfKey(bubbles, key) ==
  bubbles[CHOOSE i \in 1..Len(bubbles) :
            /\ toUpperCase(bubbles[i].supabaseColumn) = key
            /\ \A j \in (i + 1)..Len(bubbles) : toUpperCase(bubbles[j].supabaseColumn) # key]

\* the cells of the row without the keys no bubble holds
rowDataCellsHeldOnly(bubbles) ==
  [key \in HeldKeys(bubbles) |->
     PlainText(buildSupabaseValueForBubble(StepOf(BubbleOfKey(bubbles, key))))]

\* the cells of rowData: the value of the bubble under the key of each
\* bubble, then null under every key of M1..M50, T1..T50 not yet in it
rowDataCells(bubbles) ==
  [key \in HeldKeys(bubbles) \cup AllSlots |->
     IF key \in HeldKeys(bubbles)
     THEN PlainText(buildSupabaseValueForBubble(StepOf(BubbleOfKey(bubbles, key))))
     ELSE NullText]

\* the cells of the stored row
StoredCells(r) == IF "cells" \in DOMAIN r THEN r.cells ELSE <<>>

\* POST ...?on_conflict=GRUPO,FLUXO with Prefer: resolution=merge-duplicates:
\* every column of the body replaces the stored one, every other column of
\* the stored row is kept
Upsert(stored, cells) ==
  [key \in DOMAIN stored \cup DOMAIN cells |->
     IF key \in DOMAIN cells THEN cells[key] ELSE stored[key]]

\* the slots that held a value in the stored row and hold null in the new one
Cleared(stored, cells) ==
  { key \in DOMAIN stored \cap DOMAIN cells :
      stored[key] # NullText /\ cells[key] = NullText }

\* handlePublish: refused without a bubble, with a slot held twice, or with a
\* bubble whose column does not parse; otherwise the row is upserted
Publish(bubbles, posicaoStr, blkStr) ==
  /\ Len(bubbles) > 0
  /\ detectDuplicateColumns(bubbles) = {}
  /\ \A i \in 1..Len(bubbles) :
       /\ bubbles[i].supabaseColumn # <<>>
       /\ parseColumn(bubbles[i].supabaseColumn) # NULL
  /\ row' = [posicao |-> IF NoText(posicaoStr) THEN NullText ELSE posicaoStr,
             blk |-> blkStr,
             cells |-> Upsert(StoredCells(row), rowDataCells(bubbles))]
  /\ last' = Last("handlePublish", "", 0, <<>>, "",
                  Cleared(StoredCells(row), rowDataCells(bubbles)))
  /\ UNCHANGED <<nodes, edges, nodeCtr, bubbleCtr, edgeCtr>>

HandlePublish ==
  Publish(getAllBubblesFromFlowNodes(nodes), encodePosicaoV2(nodes, edges), encodeBlk(nodes))

\* the editor and the table: bubbles are dropped on the canvas and into the
\* first group, bubbles are deleted, the flow is published
MaxPublishNodes == 2
MaxPublishBubbles == 3

PublishDropOnCanvas ==
  OnCanvasDrop(MaxPublishNodes, MaxPublishBubbles, BubbleTypes, SlotPositions)

PublishDropIntoGroup ==
  HandleDropBubbleIntoGroup(MaxPublishBubbles, {NodeIdTable[1]} \cap GroupIdsOf(nodes),
                            BubbleTypes)

NextPublish ==
  \/ PublishDropOnCanvas
  \/ PublishDropIntoGroup
  \/ DeleteBubble
  \/ HandlePublish

SpecPublish == Init /\ [][NextPublish]_vars

(***************************************************************************)
(* The step editor converts a step whose URL field holds a timed value     *)
(***************************************************************************)
\* the kinds the editor checks the URL field of, and the kinds it converts to
ConvertibleTypes == {"photo", "photo-caption", "video", "video-caption"}

\* EditBubbleModal.handleConvert builds newData = { label, rules } and
\* handleConvertBubbleType hands it to updateBubble with the new type: the
\* data of the bubble is replaced, and newData carries no supabaseColumn
handleConvertBubbleType(ns, nodeId, bubbleId, newType) ==
  updateBubble(ns, nodeId, bubbleId, <<>>, newType)

HandleConvertBubbleType(newTypes) ==
  /\ \E i \in 1..Len(nodes), newType \in newTypes :
       /\ nodes[i].type = "group"
       /\ \E k \in 1..Len(nodes[i].bubbles) :
            /\ nodes[i].bubbles[k].type \in ConvertibleTypes
            /\ nodes' = handleConvertBubbleType(nodes, nodes[i].id, nodes[i].bubbles[k].id,
                                                newType)
            /\ last' = Last("handleConvertBubbleType", nodes[i].id, nodes[i].bubbles[k].id,
                            nodes[i].bubbles[k].supabaseColumn, newType, {})
  /\ UNCHANGED <<row, edges, nodeCtr, bubbleCtr, edgeCtr>>

\* the whole editor: steps of three kinds (a photo, a timer, a note) are
\* dropped with the suggested slot, deleted, reordered, moved, given another
\* slot by hand, converted; groups are deleted; edges are drawn and deleted
MaxEditorNodes == 2
MaxEditorBubbles == 2
MaxEditorEdges == 1

EditorTypes == {"photo", "time", "note"}

EditorDropOnCanvas ==
  OnCanvasDrop(MaxEditorNodes, MaxEditorBubbles, EditorTypes, SlotPositions)

EditorDropIntoGroup ==
  HandleDropBubbleIntoGroup(MaxEditorBubbles, GroupIdsOf(nodes), EditorTypes)

EditorAddEdge == AddEdge(MaxEditorEdges, {StartNodeId}, GroupIdsOf(nodes))

EditorConvert == HandleConvertBubbleType({"photo-caption-time"})

\* the slots asked for by hand: one of each letter
EditorRequests == { <<"M", "2">>, <<"T", "1">> }

EditorChangeColumn == ChangeBubbleColumn(EditorRequests)

NextEditor ==
  \/ EditorDropOnCanvas
  \/ EditorDropIntoGroup
  \/ DeleteBubble
  \/ DeleteNode
  \/ ReorderBubblesInNode
  \/ MoveBubbleBetweenNodes
  \/ EditorAddEdge
  \/ DeleteEdge
  \/ EditorChangeColumn
  \/ EditorConvert

SpecEditor == Init /\ [][NextEditor]_vars

(***************************************************************************)
(* SpecStore: useWorkflowStore with two flows and a current flow           *)
(***************************************************************************)
\* The store keeps every flow inside groups and, beside them, currentFlow: a
\* copy of the flow open in the editor.  Here nodes and edges are the nodes
\* and edges of currentFlow, and row holds the id of currentFlow (currentId),
\* the flowId the last operation was called with (flowId) and the flows kept
\* in groups (flows).
FlowIds == {"f1", "f2"}

MaxStoreNodes == 2
MaxStoreBubbles == 2
MaxStoreEdges == 1

\* the operations of the store that take a flowId
StoreOps ==
  {"addNode", "updateNode", "deleteNode", "addBubbleToNode", "updateBubble",
   "deleteBubble", "reorderBubblesInNode", "moveBubbleBetweenNodes", "addEdge",
   "deleteEdge"}

\* createFlow twice, then setCurrentFlow with the first flow
InitStore ==
  /\ nodes = << StartNode([x |-> Whole(50), y |-> Whole(50)]) >>
  /\ edges = <<>>
  /\ row = [currentId |-> "f1", flowId |-> "f1",
            flows |-> [f \in FlowIds |->
                         [nodes |-> << StartNode([x |-> Whole(50), y |-> Whole(50)]) >>,
                          edges |-> <<>>]]]
  /\ nodeCtr = 0
  /\ bubbleCtr = 0
  /\ edgeCtr = 0
  /\ last = Last("setCurrentFlow", "", 0, <<>>, "", {})

\* set(...) of an operation whose currentFlow is
\* state.currentFlow?.id === flowId ? <updated currentFlow> : state.currentFlow
\* fNodes, fEdges: the flow of groups after the update; cNodes, cEdges:
\* currentFlow after the same update
StoreSet(op, flowId, fNodes, fEdges, cNodes, cEdges) ==
  /\ row' = [row EXCEPT !.flowId = flowId,
                        !.flows[flowId] = [nodes |-> fNodes, edges |-> fEdges]]
  /\ nodes' = IF row.currentId = flowId THEN cNodes ELSE nodes
  /\ edges' = IF row.currentId = flowId THEN cEdges ELSE edges
  /\ last' = Last(op, "", 0, <<>>, "", {})

\* set(...) of deleteBubble: currentFlow is the flow found in the updated
\* groups under flowId (currentFlow || state.currentFlow), whatever the id of
\* state.currentFlow
StoreSetFound(op, flowId, fNodes, fEdges) ==
  /\ row' = [row EXCEPT !.flowId = flowId, !.currentId = flowId,
                        !.flows[flowId] = [nodes |-> fNodes, edges |-> fEdges]]
  /\ nodes' = fNodes
  /\ edges' = fEdges
  /\ last' = Last(op, "", 0, <<>>, "", {})

SetCurrentFlow ==
  /\ \E flowId \in FlowIds :
       /\ row.currentId # flowId
       /\ row' = [row EXCEPT !.currentId = flowId]
       /\ nodes' = row.flows[flowId].nodes
       /\ edges' = row.flows[flowId].edges
  /\ last' = Last("setCurrentFlow", "", 0, <<>>, "", {})
  /\ UNCHANGED <<nodeCtr, bubbleCtr, edgeCtr>>

StoreAddNode ==
  /\ nodeCtr < MaxStoreNodes
  /\ \E flowId \in FlowIds, pos \in SlotPositions :
       StoreSet("addNode", flowId,
                addNode(row.flows[flowId].nodes,
                        [id |-> NodeIdTable[nodeCtr + 1], type |-> "group",
                         position |-> pos, label |-> GroupLabel(row.flows[flowId].nodes),
                         bubbles |-> <<>>]),
                row.flows[flowId].edges,
                addNode(nodes,
                        [id |-> NodeIdTable[nodeCtr + 1], type |-> "group",
                         position |-> pos, label |-> GroupLabel(row.flows[flowId].nodes),
                         bubbles |-> <<>>]),
                edges)
  /\ nodeCtr' = nodeCtr + 1
  /\ UNCHANGED <<bubbleCtr, edgeCtr>>

\* where a group is dragged to: along the top of the canvas
StorePositions == { p \in Positions : p.y = 0 }

StoreUpdateNode ==
  /\ \E flowId \in FlowIds :
       \E nodeId \in GroupIdsOf(row.flows[flowId].nodes), pos \in StorePositions :
         /\ updateNode(row.flows[flowId].nodes, nodeId, pos) # row.flows[flowId].nodes
         /\ StoreSet("updateNode", flowId,
                     updateNode(row.flows[flowId].nodes, nodeId, pos),
                     row.flows[flowId].edges,
                     updateNode(nodes, nodeId, pos), edges)
  /\ UNCHANGED <<nodeCtr, bubbleCtr, edgeCtr>>

StoreDeleteNode ==
  /\ \E flowId \in FlowIds :
       \E nodeId \in GroupIdsOf(row.flows[flowId].nodes) :
         StoreSet("deleteNode", flowId,
                  deleteNodeNodes(row.flows[flowId].nodes, nodeId),
                  deleteNodeEdges(row.flows[flowId].edges, nodeId),
                  deleteNodeNodes(nodes, nodeId), deleteNodeEdges(edges, nodeId))
  /\ UNCHANGED <<nodeCtr, bubbleCtr, edgeCtr>>

StoreAddBubbleToNode ==
  /\ bubbleCtr < MaxStoreBubbles
  /\ \E flowId \in FlowIds :
       \E nodeId \in GroupIdsOf(row.flows[flowId].nodes) :
         StoreSet("addBubbleToNode", flowId,
                  addBubbleToNode(row.flows[flowId].nodes, nodeId,
                    [id |-> bubbleCtr + 1, type |-> "message",
                     supabaseColumn |->
                       suggestColumnForType(row.flows[flowId].nodes, "message")]),
                  row.flows[flowId].edges,
                  addBubbleToNode(nodes, nodeId,
                    [id |-> bubbleCtr + 1, type |-> "message",
                     supabaseColumn |->
                       suggestColumnForType(row.flows[flowId].nodes, "message")]),
                  edges)
  /\ bubbleCtr' = bubbleCtr + 1
  /\ UNCHANGED <<nodeCtr, edgeCtr>>

\* the data handed over carries another column; no newType
StoreUpdateBubble ==
  /\ \E flowId \in FlowIds :
       \E nodeId \in GroupIdsOf(row.flows[flowId].nodes),
          bubbleId \in BubbleIdsOf(row.flows[flowId].nodes) :
         /\ updateBubble(row.flows[flowId].nodes, nodeId, bubbleId, <<"M", "9">>, "")
              # row.flows[flowId].nodes
         /\ StoreSet("updateBubble", flowId,
                     updateBubble(row.flows[flowId].nodes, nodeId, bubbleId,
                                  <<"M", "9">>, ""),
                     row.flows[flowId].edges,
                     updateBubble(nodes, nodeId, bubbleId, <<"M", "9">>, ""),
                     edges)
  /\ UNCHANGED <<nodeCtr, bubbleCtr, edgeCtr>>

StoreDeleteBubble ==
  /\ \E flowId \in FlowIds :
       \E nodeId \in GroupIdsOf(row.flows[flowId].nodes),
          bubbleId \in BubbleIdsOf(row.flows[flowId].nodes) :
         StoreSetFound("deleteBubble", flowId,
                       deleteBubble(row.flows[flowId].nodes, nodeId, bubbleId),
                       row.flows[flowId].edges)
  /\ UNCHANGED <<nodeCtr, bubbleCtr, edgeCtr>>

StoreReorderBubblesInNode ==
  /\ \E flowId \in FlowIds :
       \E i \in 1..Len(row.flows[flowId].nodes) :
         /\ row.flows[flowId].nodes[i].type = "group"
         /\ Len(row.flows[flowId].nodes[i].bubbles) > 0
         /\ \E newBubbleOrder \in Rearrangements(row.flows[flowId].nodes[i].bubbles) :
              StoreSet("reorderBubblesInNode", flowId,
                       reorderBubblesInNode(row.flows[flowId].nodes,
                                            row.flows[flowId].edges,
                                            row.flows[flowId].nodes[i].id, newBubbleOrder),
                       row.flows[flowId].edges,
                       reorderBubblesInNode(nodes, edges,
                                            row.flows[flowId].nodes[i].id, newBubbleOrder),
                       edges)
  /\ UNCHANGED <<nodeCtr, bubbleCtr, edgeCtr>>

StoreMoveBubbleBetweenNodes ==
  /\ \E flowId \in FlowIds :
       \E s \in 1..Len(row.flows[flowId].nodes), t \in 1..Len(row.flows[flowId].nodes) :
         /\ row.flows[flowId].nodes[s].type = "group"
         /\ row.flows[flowId].nodes[t].type = "group"
         /\ \E k \in 1..Len(row.flows[flowId].nodes[s].bubbles) :
              StoreSet("moveBubbleBetweenNodes", flowId,
                       moveBubbleBetweenNodes(row.flows[flowId].nodes,
                                              row.flows[flowId].edges,
                                              row.flows[flowId].nodes[s].id,
                                              row.flows[flowId].nodes[t].id,
                                              row.flows[flowId].nodes[s].bubbles[k].id, -1),
                       row.flows[flowId].edges,
                       moveBubbleBetweenNodes(nodes, edges,
                                              row.flows[flowId].nodes[s].id,
                                              row.flows[flowId].nodes[t].id,
                                              row.flows[flowId].nodes[s].bubbles[k].id, -1),
                       edges)
  /\ UNCHANGED <<nodeCtr, bubbleCtr, edgeCtr>>

StoreAddEdge ==
  /\ edgeCtr < MaxStoreEdges
  /\ \E flowId \in FlowIds :
       \E target \in GroupIdsOf(row.flows[flowId].nodes) :
         StoreSet("addEdge", flowId,
                  applyNormalizationToNodes(
                    row.flows[flowId].nodes,
                    addEdgeEdges(row.flows[flowId].edges,
                                 [id |-> edgeCtr + 1, source |-> StartNodeId,
                                  target |-> target])),
                  addEdgeEdges(row.flows[flowId].edges,
                               [id |-> edgeCtr + 1, source |-> StartNodeId,
                                target |-> target]),
                  applyNormalizationToNodes(
                    nodes,
                    addEdgeEdges(edges, [id |-> edgeCtr + 1, source |-> StartNodeId,
                                         target |-> target])),
                  addEdgeEdges(edges, [id |-> edgeCtr + 1, source |-> StartNodeId,
                                       target |-> target]))
  /\ edgeCtr' = edgeCtr + 1
  /\ UNCHANGED <<nodeCtr, bubbleCtr>>

StoreDeleteEdge ==
  /\ \E flowId \in FlowIds :
       \E k \in 1..Len(row.flows[flowId].edges) :
         StoreSet("deleteEdge", flowId,
                  applyNormalizationToNodes(
                    row.flows[flowId].nodes,
                    deleteEdgeEdges(row.flows[flowId].edges, row.flows[flowId].edges[k].id)),
                  deleteEdgeEdges(row.flows[flowId].edges, row.flows[flowId].edges[k].id),
                  applyNormalizationToNodes(
                    nodes, deleteEdgeEdges(edges, row.flows[flowId].edges[k].id)),
                  deleteEdgeEdges(edges, row.flows[flowId].edges[k].id))
  /\ UNCHANGED <<nodeCtr, bubbleCtr, edgeCtr>>

NextStore ==
  \/ SetCurrentFlow
  \/ StoreAddNode
  \/ StoreUpdateNode
  \/ StoreDeleteNode
  \/ StoreAddBubbleToNode
  \/ StoreUpdateBubble
  \/ StoreDeleteBubble
  \/ StoreReorderBubblesInNode
  \/ StoreMoveBubbleBetweenNodes
  \/ StoreAddEdge
  \/ StoreDeleteEdge

SpecStore == InitStore /\ [][NextStore]_vars

(***************************************************************************)
(* SpecExport: a flow of groups and edges exported to a JSON file and      *)
(* imported from it                                                        *)
(***************************************************************************)
SCHEMA_VERSION == 1

\* handleExportFlow: the FlowExport object written to the file.  The nodes go
\* as they are; of an edge, its id, source and target.  JSON.stringify and
\* JSON.parse keep the strings, whole numbers, arrays and objects a node is
\* made of, so parsed holds the same values.
FlowExport(ns, es) ==
  [schemaVersion |-> SCHEMA_VERSION,
   nodes |-> ns,
   edges |-> [k \in 1..Len(es) |->
                [id |-> es[k].id, source |-> es[k].source, target |-> es[k].target]]]

\* uuidv4() for the node at a place of parsed.nodes: an id no node has yet
ImportedIdTable == <<"u1", "u2", "u3", "u4", "u5", "u6">>

\* idMap after the loop over parsed.nodes: Map.set keeps the last id set for
\* a key
IdMapGet(parsedNodes, id) ==
  LET hits == { i \in 1..Len(parsedNodes) : parsedNodes[i].id = id }
  IN  IF hits = {} THEN id
      ELSE ImportedIdTable[CHOOSE i \in hits : \A j \in hits : j <= i]

\* the number of bubbles in the nodes before place i
BubblesBefore(parsedNodes, i) ==
  Len(getAllBubblesFromFlowNodes(SubSeq(parsedNodes, 1, i - 1)))

\* newNodes: every node, the start node included, gets a new id, and every
\* bubble too
importedNodes(parsedNodes, firstBubbleId) ==
  [i \in 1..Len(parsedNodes) |->
     [parsedNodes[i] EXCEPT
        !.id = ImportedIdTable[i],
        !.bubbles = [k \in 1..Len(parsedNodes[i].bubbles) |->
                       [parsedNodes[i].bubbles[k] EXCEPT
                          !.id = firstBubbleId + BubblesBefore(parsedNodes, i) + k]]]]

\* newEdges: a new id, and source and target looked up in idMap
\* (idMap.get(e.source) || e.source)
importedEdges(parsed, firstEdgeId) ==
  [k \in 1..Len(parsed.edges) |->
     [id |-> firstEdgeId + k,
      source |-> IdMapGet(parsed.nodes, parsed.edges[k].source),
      target |-> IdMapGet(parsed.nodes, parsed.edges[k].target)]]

\* the file passes the checks of processImportedFile
ValidExport(parsed) == parsed.schemaVersion <= SCHEMA_VERSION

\* the flow is exported, and the file is imported over the same flow (once:
\* no node carries an imported id yet); updateFlow stores newNodes and newEdges
ProcessImportedFile ==
  /\ \A i \in 1..Len(nodes) :
       \A j \in 1..Len(ImportedIdTable) : nodes[i].id # ImportedIdTable[j]
  /\ Len(nodes) <= Len(ImportedIdTable)
  /\ ValidExport(FlowExport(nodes, edges))
  /\ nodes' = importedNodes(FlowExport(nodes, edges).nodes, bubbleCtr)
  /\ edges' = importedEdges(FlowExport(nodes, edges), edgeCtr)
  /\ bubbleCtr' = bubbleCtr + Len(getAllBubblesFromFlowNodes(nodes))
  /\ edgeCtr' = edgeCtr + Len(edges)
  /\ last' = Last("processImportedFile", "", 0, <<>>, "", {})
  /\ UNCHANGED <<row, nodeCtr>>

MaxExportNodes == 2
MaxExportEdges == 2

ExportAddNode == AddNode(MaxExportNodes, Positions)

\* connections drawn from the start node or a group to a group
ExportAddEdge ==
  AddEdge(MaxExportEdges,
          { nodes[i].id : i \in { j \in 1..Len(nodes) : nodes[j].type = "start" } }
            \cup GroupIdsOf(nodes),
          GroupIdsOf(nodes))

NextExport ==
  \/ ExportAddNode
  \/ ExportAddEdge
  \/ DeleteEdge
  \/ ProcessImportedFile

SpecExport == Init /\ [][NextExport]_vars

(***************************************************************************)
(* Vocabulary of the properties                                            *)
(***************************************************************************)
\* the slot a bubble holds: its column as the code reads it back (trimmed,
\* upper-cased, parsed and rebuilt when it parses); <<>> when it holds none
HeldSlot(b) ==
  IF currentNormalized(b.supabaseColumn) # <<>>
  THEN currentNormalized(b.supabaseColumn)
  ELSE toUpperCase(trim(b.supabaseColumn))

\* the non-note steps of a flow
Steps(ns) == SelectSeq(getAllBubblesFromFlowNodes(ns), LAMBDA b : b.type # "note")

\* step id -> held slot, over the non-note steps
SlotsOf(ns) ==
  [id \in { Steps(ns)[i].id : i \in 1..Len(Steps(ns)) } |->
     HeldSlot(Steps(ns)[CHOOSE i \in 1..Len(Steps(ns)) : Steps(ns)[i].id = id])]

NoTwoStepsShareASlot(ns) ==
  \A i, j \in 1..Len(Steps(ns)) :
    i # j => HeldSlot(Steps(ns)[i]) # HeldSlot(Steps(ns)[j])

CanonicalOrder(ns, es) ==
  [i \in 1..Len(calculateGroupOrder(ns, es)) |-> calculateGroupOrder(ns, es)[i].groupId]

\* the full normalization, applied
Normalized(ns, es) == applyNormalizationToNodes(ns, es)

GroupById(ns, id) == ns[CHOOSE i \in 1..Len(ns) : ns[i].id = id]

\* the non-note steps met when the groups are walked in the given order and
\* the steps of each group in list order
RECURSIVE Traversal(_, _)
Traversal(ns, order) ==
  IF order = <<>> THEN <<>>
  ELSE SelectSeq(GroupById(ns, Head(order)).bubbles, LAMBDA b : b.type # "note")
       \o Traversal(ns, Tail(order))

\* how many of the first p steps of a traversal are timers (or are not)
CountUpTo(visit, p, timer) ==
  Cardinality({ q \in 1..p : (visit[q].type = "time") = timer })

(***************************************************************************)
(* C1  Slot uniqueness.  Whatever columns the steps of a flow carry        *)
(* (missing, duplicated, out of order, of the wrong letter), in the result *)
(* of the full normalization no two non-note steps hold the same slot.     *)
(***************************************************************************)
C1_SlotUniqueness == NoTwoStepsShareASlot(Normalized(nodes, edges))

\* a flow with a duplicated slot, a missing one and a timer holding an M
\* column, whose normalization moves slots and ends without duplicates
C1_Witness ==
  /\ ~NoTwoStepsShareASlot(nodes)
  /\ \E i \in 1..Len(Steps(nodes)) : HeldSlot(Steps(nodes)[i]) = <<>>
  /\ \E i \in 1..Len(Steps(nodes)) :
       /\ Steps(nodes)[i].type = "time"
       /\ parseColumn(Steps(nodes)[i].supabaseColumn) # NULL
       /\ parseColumn(Steps(nodes)[i].supabaseColumn).kind = "M"
  /\ Len(Steps(nodes)) = 3
  /\ SlotsOf(Normalized(nodes, edges)) # SlotsOf(nodes)
  /\ NoTwoStepsShareASlot(Normalized(nodes, edges))

(***************************************************************************)
(* C2  Idempotence.  As claimed: after applyNormalizationToNodes, a second *)
(* normalizeColumnsWithGroupOrder call reports no updates.                 *)
(***************************************************************************)
C2_SecondCallReportsNoUpdates ==
  DOMAIN normalizeColumnsWithGroupOrder(
           Normalized(nodes, edges),
           CanonicalOrder(Normalized(nodes, edges), edges)) = {}

\* What does hold beyond 50 steps of a kind: applying the normalization to
\* its own result changes no step's slot (the second call reports the steps
\* numbered above 50 again, with the slot they already hold).
SecondApplicationChangesNoSlot ==
  SlotsOf(Normalized(Normalized(nodes, edges), edges)) = SlotsOf(Normalized(nodes, edges))

(***************************************************************************)
(* C3  Numbering.  Walking the groups in canonical order and the steps of  *)
(* each group in list order, notes skipped, normalizeColumnsWithGroupOrder *)
(* gives the k-th non-timer step the slot M<k> and the k-th timer step the *)
(* slot T<k>: each letter is numbered 1, 2, ... without gaps, on its own.  *)
(***************************************************************************)
C3_Numbering ==
  LET order == CanonicalOrder(nodes, edges)
      result == ApplyColumnUpdates(nodes, normalizeColumnsWithGroupOrder(nodes, order))
      visit == Traversal(result, order)
  IN  \A p \in 1..Len(visit) :
        HeldSlot(visit[p]) =
          IF visit[p].type = "time"
          THEN <<"T">> \o ToDigits(CountUpTo(visit, p, TRUE))
          ELSE <<"M">> \o ToDigits(CountUpTo(visit, p, FALSE))

\* content, timer, content, spread over two groups whose canonical order is
\* not the order of creation, with a note, before any renumbering
C3_Witness ==
  LET order == CanonicalOrder(nodes, edges)
      result == ApplyColumnUpdates(nodes, normalizeColumnsWithGroupOrder(nodes, order))
      visit == Traversal(result, order)
  IN  /\ order = <<"g2", "g1">>
      /\ Len(visit) = 2
      /\ \E b \in { getAllBubblesFromFlowNodes(nodes)[i] :
                      i \in 1..Len(getAllBubblesFromFlowNodes(nodes)) } : b.type = "note"
      /\ GroupById(nodes, "g2").bubbles # <<>>
      /\ GroupById(nodes, "g1").bubbles # <<>>
      /\ visit[1].type = "time" /\ HeldSlot(visit[1]) = <<"T", "1">>
      /\ visit[2].type = "message" /\ HeldSlot(visit[2]) = <<"M", "1">>
      /\ SlotsOf(result) # SlotsOf(nodes)

(***************************************************************************)
(* C4  Renormalization on mutation.  After every structural mutation made  *)
(* through the store (addBubbleToNode, deleteBubble, moveBubbleBetweenNodes,*)
(* reorderBubblesInNode, addEdge, deleteEdge) every non-note step holds the *)
(* slot that the full normalization assigns for the groups and edges as     *)
(* they are after the mutation.                                             *)
(***************************************************************************)
StructuralMutations ==
  { "addBubbleToNode", "deleteBubble", "moveBubbleBetweenNodes",
    "reorderBubblesInNode", "addEdge", "deleteEdge" }

C4_MutationsRenormalize ==
  last.op \in StructuralMutations => SlotsOf(nodes) = SlotsOf(Normalized(nodes, edges))

(***************************************************************************)
(* C5  Localized shift against full resequence.  Deleting one step with    *)
(* deleteBubble (the slots of the deleted step's letter above it move down  *)
(* by one) leaves every remaining step with the slot that the full          *)
(* normalization gives it in the flow without the deleted step.             *)
(***************************************************************************)
C5_ShiftEqualsResequence ==
  [][ (last'.op = "deleteBubble" /\ last'.bubbleId \notin BubbleIdsOf(nodes')) =>
        SlotsOf(nodes') =
          SlotsOf(Normalized(RemoveBubble(nodes, last'.nodeId, last'.bubbleId), edges)) ]_vars

(***************************************************************************)
(* C6  Compaction.  In a flow whose steps hold M1, M2 and M3, deleteBubble *)
(* of the step at M2 leaves exactly one step holding M2, namely the step    *)
(* that held M3, leaves no step holding M3, and leaves the step at M1 as it *)
(* was.                                                                     *)
(***************************************************************************)
AllBubbles(ns) == getAllBubblesFromFlowNodes(ns)

\* the bubbles of a flow (notes included) that hold the slot
Holders(ns, slot) ==
  { AllBubbles(ns)[i].id : i \in { j \in 1..Len(AllBubbles(ns)) :
                                     HeldSlot(AllBubbles(ns)[j]) = slot } }

\* the bubbles holding a content slot are three, at M1, M2 and M3
HoldsM1M2M3(ns) ==
  /\ Cardinality(Holders(ns, <<"M", "1">>)) = 1
  /\ Cardinality(Holders(ns, <<"M", "2">>)) = 1
  /\ Cardinality(Holders(ns, <<"M", "3">>)) = 1
  /\ \A i \in 1..Len(AllBubbles(ns)) :
       (Len(HeldSlot(AllBubbles(ns)[i])) > 0 /\ HeldSlot(AllBubbles(ns)[i])[1] = "M")
         => HeldSlot(AllBubbles(ns)[i]) \in { <<"M", "1">>, <<"M", "2">>, <<"M", "3">> }

BubbleOf(ns, id) == AllBubbles(ns)[CHOOSE i \in 1..Len(AllBubbles(ns)) : AllBubbles(ns)[i].id = id]

C6_Compaction ==
  [][ ( /\ last'.op = "deleteBubble"
        /\ HoldsM1M2M3(nodes)
        /\ last'.bubbleId \in Holders(nodes, <<"M", "2">>)
        /\ last'.bubbleId \notin BubbleIdsOf(nodes') )
      => /\ Holders(nodes', <<"M", "2">>) = Holders(nodes, <<"M", "3">>)
         /\ Holders(nodes', <<"M", "3">>) = {}
         /\ Holders(nodes', <<"M", "1">>) = Holders(nodes, <<"M", "1">>)
         /\ \A id \in Holders(nodes, <<"M", "1">>) :
              BubbleOf(nodes', id) = BubbleOf(nodes, id) ]_vars

\* the content step at M2 has just been deleted, the only column rewritten
\* is the one of the step now at M2, and the other content step is at M1
C6_Witness ==
  /\ last.op = "deleteBubble"
  /\ last.type = "message"
  /\ currentNormalized(last.col) = <<"M", "2">>
  /\ last.bubbleId \notin BubbleIdsOf(nodes)
  /\ Cardinality(last.shifted) = 1
  /\ Holders(nodes, <<"M", "2">>) = last.shifted
  /\ Cardinality(Holders(nodes, <<"M", "1">>)) = 1
  /\ Holders(nodes, <<"M", "3">>) = {}
  /\ Len(Steps(nodes)) = 2
  /\ Len(AllBubbles(nodes)) = 2

(***************************************************************************)
(* Vocabulary of the order properties                                      *)
(***************************************************************************)
\* p sorts strictly before q: smaller x, or the same x and smaller y
PosBefore(p, q) == p.x < q.x \/ (p.x = q.x /\ p.y < q.y)

PositionOfGroup(ns, id) == GroupById(ns, id).position

\* an edge from the start node or from a group, to a group
Qualifies(ns, e) ==
  /\ e.source = StartNodeId \/ e.source \in GroupIdsOf(ns)
  /\ e.target \in GroupIdsOf(ns)

QualifyingEdgeExists(ns, es) == \E i \in 1..Len(es) : Qualifies(ns, es[i])

HasEdge(es, source, target) ==
  \E i \in 1..Len(es) : es[i].source = source /\ es[i].target = target

\* the groups some path of edges leads to from the start node through groups
RECURSIVE Closure(_, _, _)
Closure(S, es, groups) ==
  LET T == S \cup { es[i].target : i \in { j \in 1..Len(es) :
                      /\ es[j].source \in S \cup {StartNodeId}
                      /\ es[j].target \in groups } }
  IN  IF T = S THEN S ELSE Closure(T, es, groups)

Reached(ns, es) == Closure({}, es, GroupIdsOf(ns))

\* a sequence of group ids in ascending position order
SortedByPosition(ns, ids) ==
  \A i, j \in 1..Len(ids) :
    i < j => ~PosBefore(PositionOfGroup(ns, ids[j]), PositionOfGroup(ns, ids[i]))

TagDigits == <<"1", "2", "3", "4", "5", "6", "7", "8", "9">>

(***************************************************************************)
(* C7  calculateGroupOrder is total and returns a permutation of the       *)
(* groups: whatever the edges (cycles, self-loops, duplicates, edges to an  *)
(* unknown node or from a non-group node), every group id occurs exactly    *)
(* once, the entries are tagged G1..Gn in sequence with orderIndex 0..n-1,  *)
(* and with zero groups the order is empty.                                 *)
(***************************************************************************)
C7_TotalPermutation ==
  LET order == calculateGroupOrder(nodes, edges)
      groups == GroupIdsOf(nodes)
  IN  /\ Len(order) = Cardinality(groups)
      /\ { order[i].groupId : i \in 1..Len(order) } = groups
      /\ \A i \in 1..Len(order) :
           /\ order[i].orderIndex = i - 1
           /\ order[i].orderTag = <<"G", TagDigits[i]>>
      /\ groups = {} => order = <<>>

\* three groups, with a self-loop given twice and an edge to an unknown node
C7_Witness ==
  /\ Cardinality(GroupIdsOf(nodes)) = 3
  /\ \E i, j \in 1..Len(edges) :
       /\ i # j
       /\ edges[i].source = edges[j].source
       /\ edges[i].target = edges[j].target
       /\ edges[i].source = edges[i].target
  /\ \E i \in 1..Len(edges) : edges[i].target = UnknownNodeId
  /\ Len(calculateGroupOrder(nodes, edges)) = 3

(***************************************************************************)
(* C8  With no edge from the start node to a group and no edge between     *)
(* groups, calculateGroupOrder orders the groups by canvas position:       *)
(* ascending x, ties broken by ascending y.                                 *)
(***************************************************************************)
C8_NoEdgesSortsByPosition ==
  ~QualifyingEdgeExists(nodes, edges)
    => SortedByPosition(nodes, CanonicalOrder(nodes, edges))

\* three groups at three positions, not created in position order, and an
\* edge that does not qualify
C8_Witness ==
  /\ ~QualifyingEdgeExists(nodes, edges)
  /\ Len(edges) > 0
  /\ Cardinality(GroupIdsOf(nodes)) = 3
  /\ Cardinality({ PositionOfGroup(nodes, id) : id \in GroupIdsOf(nodes) }) = 3
  /\ CanonicalOrder(nodes, edges) #
       [i \in 1..3 |-> SelectSeq(nodes, LAMBDA n : n.type = "group")[i].id]
  /\ SortedByPosition(nodes, CanonicalOrder(nodes, edges))

(***************************************************************************)
(* C9  Order determinism.  No edges, three groups at (0,0), (100,0) and    *)
(* (0,50).  As claimed: the order is [group at (0,0), group at (100,0),     *)
(* group at (0,50)].                                                        *)
(***************************************************************************)
ThreeGroupsNoEdges ==
  /\ edges = <<>>
  /\ Cardinality(GroupIdsOf(nodes)) = 3
  /\ { PositionOfGroup(nodes, id) : id \in GroupIdsOf(nodes) } =
       { [x |-> 0, y |-> 0], [x |-> 100 * PX, y |-> 0], [x |-> 0, y |-> 50 * PX] }

OrderPositions ==
  [i \in 1..Len(CanonicalOrder(nodes, edges)) |->
     PositionOfGroup(nodes, CanonicalOrder(nodes, edges)[i])]

C9_ClaimedOrder ==
  ThreeGroupsNoEdges
    => OrderPositions = << [x |-> 0, y |-> 0], [x |-> 100 * PX, y |-> 0], [x |-> 0, y |-> 50 * PX] >>

\* C9 with the order the x-then-y comparison gives: the order is [group at
\* (0,0), group at (0,50), group at (100,0)].
C9_OrderXThenY ==
  ThreeGroupsNoEdges
    => OrderPositions = << [x |-> 0, y |-> 0], [x |-> 0, y |-> 50 * PX], [x |-> 100 * PX, y |-> 0] >>

\* the three groups, created in the order (0,0), (100,0), (0,50)
C9_Witness ==
  /\ ThreeGroupsNoEdges
  /\ [i \in 1..3 |-> SelectSeq(nodes, LAMBDA n : n.type = "group")[i].position] =
       << [x |-> 0, y |-> 0], [x |-> 100 * PX, y |-> 0], [x |-> 0, y |-> 50 * PX] >>
  /\ OrderPositions[2] = [x |-> 0, y |-> 50 * PX]

(***************************************************************************)
(* C10  With a qualifying edge, calculateGroupOrder is a breadth-first     *)
(* traversal from the start node: the groups reached come first, each      *)
(* placed by the earliest visited node that has an edge to it and, among    *)
(* the targets of one node, in ascending position order; the groups never   *)
(* reached follow, sorted by position.  In particular start->A, start->B,   *)
(* A->C with A at x=0 and B at x=100 gives [A, B, C].                       *)
(***************************************************************************)
\* the place in the visit (0 for the start node) of the earliest visited
\* node that has an edge to the group
Discoverer(order, es, id) ==
  LET visit == <<StartNodeId>> \o order
      from == { p \in 1..Len(visit) : HasEdge(es, visit[p], id) }
  IN  CHOOSE p \in from : \A q \in from : p <= q

BreadthFirst(ns, es, order) ==
  LET n == Cardinality(Reached(ns, es))
      prefix == SubSeq(order, 1, n)
      suffix == SubSeq(order, n + 1, Len(order))
  IN  /\ Len(order) >= n
      /\ { prefix[i] : i \in 1..n } = Reached(ns, es)
      /\ \A i \in 1..n : Discoverer(prefix, es, prefix[i]) <= i
      /\ \A i, j \in 1..n :
           i < j =>
             \/ Discoverer(prefix, es, prefix[i]) < Discoverer(prefix, es, prefix[j])
             \/ /\ Discoverer(prefix, es, prefix[i]) = Discoverer(prefix, es, prefix[j])
                /\ ~PosBefore(PositionOfGroup(ns, prefix[j]), PositionOfGroup(ns, prefix[i]))
      /\ SortedByPosition(ns, suffix)

\* the groups are A, B and C, the edges start->A, start->B, A->C and nothing
\* else, A at x=0 and B at x=100
PrecedenceExample(ns, es, A, B, C) ==
  /\ Cardinality({A, B, C}) = 3
  /\ GroupIdsOf(ns) = {A, B, C}
  /\ Len(es) = 3
  /\ HasEdge(es, StartNodeId, A)
  /\ HasEdge(es, StartNodeId, B)
  /\ HasEdge(es, A, C)
  /\ PositionOfGroup(ns, A).x = 0
  /\ PositionOfGroup(ns, B).x = 100 * PX

ChangeOutcomes ==
  { "handleChangeBubbleColumn", "handleChangeBubbleColumn:invalid",
    "handleChangeBubbleColumn:duplicate" }

Rejections ==
  { "handleChangeBubbleColumn:invalid", "handleChangeBubbleColumn:duplicate" }

\* the string is M or T followed by one or two digits, as written
WellFormedRequest(col) ==
  /\ Len(col) \in {2, 3}
  /\ col[1] \in {"M", "T"}
  /\ \A i \in 2..Len(col) : col[i] \in {"0", "1", "2", "3", "4", "5", "6", "7", "8", "9"}

\* the number the digits of a well-formed request write
RequestIndex(col) ==
  IF Len(col) = 2 THEN DigitVal(col[2]) ELSE 10 * DigitVal(col[2]) + DigitVal(col[3])

\* the letter does not match the kind of a step of that type
WrongLetter(col, type) ==
  \/ type = "time" /\ col[1] # "T"
  \/ type = "message" /\ col[1] # "M"

\* some non-note step other than the one named holds the slot the request
\* names
NamesHeldSlot(ns, bubbleId, col) ==
  /\ currentNormalized(col) # <<>>
  /\ \E i \in 1..Len(Steps(ns)) :
       /\ Steps(ns)[i].id # bubbleId
       /\ HeldSlot(Steps(ns)[i]) = currentNormalized(col)

(***************************************************************************)
(* C11  A manual slot request naming a slot that a different step of the   *)
(* flow holds is rejected: the caller is told of the duplicate and the     *)
(* flow is the same before and after the request.                          *)
(***************************************************************************)
C11_DuplicateRejected ==
  [][ (last'.op \in ChangeOutcomes /\ NamesHeldSlot(nodes, last'.bubbleId, last'.col))
        => /\ last'.op = "handleChangeBubbleColumn:duplicate"
           /\ nodes' = nodes
           /\ edges' = edges ]_vars

\* a step of one group has just been refused the slot that a step of the
\* other group holds, and still holds its own
C11_Witness ==
  /\ last.op = "handleChangeBubbleColumn:duplicate"
  /\ BubbleInGroup(nodes, last.nodeId, last.bubbleId) # <<>>
  /\ last.type # "note"
  /\ HeldSlot(BubbleInGroup(nodes, last.nodeId, last.bubbleId)[1]) # currentNormalized(last.col)
  /\ \E i \in 1..Len(Steps(nodes)) :
       /\ Steps(nodes)[i].id # last.bubbleId
       /\ HeldSlot(Steps(nodes)[i]) = currentNormalized(last.col)
       /\ BubbleInGroup(nodes, last.nodeId, Steps(nodes)[i].id) = <<>>

(***************************************************************************)
(* C12  A manual slot request is rejected, with no state change, when the  *)
(* requested string is not M or T followed by one or two digits, when its  *)
(* index is outside 1..50, or when its letter does not match the step's    *)
(* kind (T for a timer step, M for any other non-note step).               *)
(***************************************************************************)
C12_InvalidRejected ==
  [][ ( /\ last'.op \in ChangeOutcomes
        /\ \/ ~WellFormedRequest(last'.col)
           \/ RequestIndex(last'.col) \notin 1..COLUMN_LIMIT
           \/ WrongLetter(last'.col, last'.type) )
        => /\ last'.op \in Rejections
           /\ nodes' = nodes ]_vars

(***************************************************************************)
(* Vocabulary of the drops                                                 *)
(***************************************************************************)
AddStepOutcomes ==
  { "handleDropBubbleIntoGroup", "handleDropBubbleIntoGroup:limit",
    "onCanvasDrop", "onCanvasDrop:limit" }

\* the slots that the bubbles of the flow hold
SlotsInUse(ns) == { HeldSlot(AllBubbles(ns)[i]) : i \in 1..Len(AllBubbles(ns)) }

\* the 50 slots of the letter are all in use
AllSlotsInUse(ns, kind) ==
  { buildColumn(kind, i) : i \in 1..COLUMN_LIMIT } \subseteq SlotsInUse(ns)

KindOfType(type) == IF type = "time" THEN "T" ELSE "M"

(***************************************************************************)
(* C13  Adding a step of a kind whose 50 slots are all in use is rejected  *)
(* with an error and leaves the flow unchanged (no step, no group added);  *)
(* suggestNextAvailableColumn returns null exactly when all 50 slots of    *)
(* the kind are in use.                                                    *)
(***************************************************************************)
C13_LimitRejected ==
  /\ [](\A kind \in {"M", "T"} :
          (suggestNextAvailableColumn(getAllBubblesFromFlowNodes(nodes), kind) = <<>>)
            <=> AllSlotsInUse(nodes, kind))
  /\ [][ (last'.op \in AddStepOutcomes /\ AllSlotsInUse(nodes, KindOfType(last'.type)))
           => /\ last'.op \in { "handleDropBubbleIntoGroup:limit", "onCanvasDrop:limit" }
              /\ nodes' = nodes
              /\ edges' = edges ]_vars

\* M1..M50 are in use and a content step dropped into the group has just been
\* refused
C13_Witness ==
  /\ last.op = "handleDropBubbleIntoGroup:limit"
  /\ last.type = "message"
  /\ AllSlotsInUse(nodes, "M")
  /\ Len(AllBubbles(nodes)) = COLUMN_LIMIT
  /\ suggestColumnForType(nodes, "message") = <<>>
  /\ suggestColumnForType(nodes, "time") # <<>>

(***************************************************************************)
(* Vocabulary of the snapshot properties                                   *)
(***************************************************************************)
GroupsOf(ns) == SelectSeq(ns, LAMBDA n : n.type = "group")

\* the slot names of a list of steps, in list order: the columns as the
\* snapshot names them, the steps without a column left out
SlotNames(bubbles) ==
  LET held == SelectSeq(bubbles, LAMBDA b : b.supabaseColumn # <<>>)
  IN  [k \in 1..Len(held) |-> toUpperCase(held[k].supabaseColumn)]

\* the (source, target) pairs of a list of edges
EdgePairs(es) == { <<es[k].source, es[k].target>> : k \in 1..Len(es) }

\* decoding the document of encodePosicaoV2 over the steps of the flow:
\* parsePosicaoAuto, then distributeBubblesByPosicaoV2; no groups and no
\* edges when the parser returns no structure
Decoded(ns, es) ==
  LET parsed == parsePosicaoAuto(encodePosicaoV2(ns, es))
  IN  IF parsed.kind # "v2" THEN [groups |-> <<>>, edges |-> <<>>]
      ELSE [groups |-> distributeBubblesByPosicaoV2(getAllBubblesFromFlowNodes(ns),
                                                     parsed.v2[1]).groups,
            edges |-> parsed.v2[1].edges]

DecodedEdgePairs(ns, es) ==
  { <<Decoded(ns, es).edges[k].source.id, Decoded(ns, es).edges[k].target.id>> :
      k \in 1..Len(Decoded(ns, es).edges) }

\* as many groups as the flow has, in its order, with the same slot names
SameGroupsAndSlots(ns, es) ==
  /\ Len(Decoded(ns, es).groups) = Len(GroupsOf(ns))
  /\ \A i \in 1..Len(GroupsOf(ns)) :
       SlotNames(Decoded(ns, es).groups[i].bubbles) = SlotNames(GroupsOf(ns)[i].bubbles)

\* the whole number n is the nearest to the coordinate c (halves upwards)
NearestWhole(n, c) == 2 * Whole(n) - PX <= 2 * c /\ 2 * c < 2 * Whole(n) + PX

RecordedOrder(r) ==
  [i \in 1..Len(r.posicao.value.o.go.a) |-> r.posicao.value.o.go.a[i].id]

RecordedGroup(r, groupId) == r.posicao.value.o.g.o[groupId].a

RecordedSlots(r, groupId) ==
  [k \in 1..Len(RecordedGroup(r, groupId)[4].a) |-> RecordedGroup(r, groupId)[4].a[k].s]

RecordedEdgePairs(r) ==
  [k \in 1..Len(r.posicao.value.o.e.a) |->
     <<r.posicao.value.o.e.a[k].a[1].id, r.posicao.value.o.e.a[k].a[2].id>>]

\* the slots for which the row held a step
FetchedSlots(r) == { r.bubbles[k].supabaseColumn : k \in 1..Len(r.bubbles) }

\* the slots a list names, those without a fetched step left out
WithFetchedStep(slots, r) == SelectSeq(slots, LAMBDA c : c \in FetchedSlots(r))

IsPrefix(p, s) == Len(p) <= Len(s) /\ SubSeq(s, 1, Len(p)) = p

\* every step of the list is a fetched one
AllFetched(bubbles, r) ==
  \A k \in 1..Len(bubbles) : \E j \in 1..Len(r.bubbles) : r.bubbles[j] = bubbles[k]

ImportedV2 == last.op = "handleImport" /\ row.posicao \in PosicaoV2Documents

ImportedLegacy == last.op = "handleImport" /\ row.posicao \in LegacyDocuments

(***************************************************************************)
(* C15  After the import of a row with a current-format snapshot, the      *)
(* groups of the flow are those of the snapshot's group-order array, in    *)
(* its order, each at its recorded position with its recorded title; the   *)
(* steps of each group start with the fetched steps of the slots the group *)
(* records, in the recorded order of the slot names, a recorded slot       *)
(* without a fetched step skipped; every group but the last holds nothing  *)
(* else.                                                                   *)
(***************************************************************************)
C15_DecodeOrderAndFill ==
  ImportedV2 =>
    /\ Len(GroupsOf(nodes)) = Len(RecordedOrder(row))
    /\ \A i \in 1..Len(RecordedOrder(row)) :
         LET n == GroupsOf(nodes)[i]
             recorded == RecordedGroup(row, RecordedOrder(row)[i])
             slots == WithFetchedStep(RecordedSlots(row, RecordedOrder(row)[i]), row)
         IN  /\ n.id = RecordedOrder(row)[i]
             /\ n.position = [x |-> Whole(recorded[1].n), y |-> Whole(recorded[2].n)]
             /\ n.label = recorded[3].s
             /\ AllFetched(n.bubbles, row)
             /\ IsPrefix(slots, SlotNames(n.bubbles))
             /\ i < Len(RecordedOrder(row)) => SlotNames(n.bubbles) = slots

\* two groups recorded in the order g2, g1; g2 records T1, M1 and both were
\* fetched, g1 records M1, M2 and M2 was not
C15_Witness ==
  /\ ImportedV2
  /\ RecordedOrder(row) = <<"g2", "g1">>
  /\ RecordedSlots(row, "g2") = <<T1, M1>>
  /\ RecordedSlots(row, "g1") = <<M1, M2>>
  /\ FetchedSlots(row) = {M1, T1}
  /\ SlotNames(GroupsOf(nodes)[1].bubbles) = <<T1, M1>>
  /\ SlotNames(GroupsOf(nodes)[2].bubbles) = <<M1>>

(***************************************************************************)
(* Vocabulary of C16: the steps no group of the snapshot refers to         *)
(***************************************************************************)
\* the entries a legacy document was written from
LegacyEntriesOf(r) ==
  CHOOSE entries \in LegacyEntryLists : LegacyDocument(entries) = r.posicao

\* the slot lists of the groups of the snapshot, in its order
RecordedSlotLists(r) ==
  IF r.posicao \in LegacyDocuments
  THEN [i \in 1..Len(LegacyEntriesOf(r)) |-> LegacyEntriesOf(r)[i].slots]
  ELSE [i \in 1..Len(RecordedOrder(r)) |-> RecordedSlots(r, RecordedOrder(r)[i])]

\* the slots of the fetched steps that none of the slot lists names, in
\* fetched order
UnreferencedSlots(r, lists) ==
  LET fetched == [k \in 1..Len(r.bubbles) |-> r.bubbles[k].supabaseColumn]
  IN  SelectSeq(fetched, LAMBDA c :
        \A i \in 1..Len(lists) : \A k \in 1..Len(lists[i]) : lists[i][k] # c)

\* the groups hold the fetched steps of the slots in their lists, and the
\* group at index `receiver` holds the unreferenced steps after them
AppendedTo(receiver, groups, lists) ==
  /\ Len(groups) = Len(lists)
  /\ \A i \in 1..Len(groups) :
       SlotNames(groups[i].bubbles)
         = WithFetchedStep(lists[i], row)
             \o (IF i = receiver THEN UnreferencedSlots(row, lists) ELSE <<>>)

UnreferencedAppendedTo(receiver) ==
  AppendedTo(receiver, GroupsOf(nodes), RecordedSlotLists(row))

\* a current-format snapshot that describes no group
NoGroupsV2 == JsonText(JObj([v |-> JNum(2)]))

(***************************************************************************)
(* C16  As claimed: after the import of a row with a current-format or a   *)
(* legacy snapshot, every fetched step whose slot no group of the snapshot *)
(* records is at the end of the last group.                                *)
(***************************************************************************)
C16_UnreferencedToLastGroup ==
  (ImportedV2 \/ ImportedLegacy) => UnreferencedAppendedTo(Len(GroupsOf(nodes)))

(***************************************************************************)
(* C16  What holds instead: the unreferenced steps are at the end of the   *)
(* last group for a current-format snapshot and at the end of the first    *)
(* group for a legacy snapshot; a current-format snapshot that describes   *)
(* no group gives them one new group titled Etapas.                        *)
(***************************************************************************)
C16_UnreferencedToLastOrFirstGroup ==
  /\ ImportedV2 => UnreferencedAppendedTo(Len(GroupsOf(nodes)))
  /\ ImportedLegacy => UnreferencedAppendedTo(1)
  /\ (last.op = "handleImport" /\ row.posicao = NoGroupsV2) =>
       IF row.bubbles = <<>> THEN GroupsOf(nodes) = <<>>
       ELSE /\ Len(GroupsOf(nodes)) = 1
            /\ GroupsOf(nodes)[1].label = EtapasTitle
            /\ GroupsOf(nodes)[1].bubbles = row.bubbles

\* a legacy snapshot of two groups that records M2 only, imported with M1,
\* M2 and T1 fetched: M1 and T1 are in the first group
C16_Witness ==
  /\ ImportedLegacy
  /\ Len(GroupsOf(nodes)) = 2
  /\ RecordedSlotLists(row) = << <<M2>>, <<>> >>
  /\ UnreferencedSlots(row, RecordedSlotLists(row)) = <<M1, T1>>
  /\ SlotNames(GroupsOf(nodes)[1].bubbles) = <<M2, M1, T1>>
  /\ GroupsOf(nodes)[2].bubbles = <<>>

(***************************************************************************)
(* Vocabulary of C17: the edges of the flow, of its document, and of the   *)
(* flow imported from the document                                         *)
(***************************************************************************)
\* the (source, target) list of a list of edges
EdgePairList(es) == [k \in 1..Len(es) |-> <<es[k].source, es[k].target>>]

\* the row that publishing the flow writes: its document and its steps
PublishedRow(ns, es) ==
  [posicao |-> encodePosicaoV2(ns, es), blk |-> NullText,
   bubbles |-> getAllBubblesFromFlowNodes(ns)]

\* the pairs under "e" in the document, as written; none in the empty text
\* of a flow without groups
WrittenEdgePairs(text) ==
  IF text.form # "json" THEN <<>> ELSE RecordedEdgePairs([posicao |-> text])

GroupOfEntry(entry) ==
  [label |-> entry.title, x |-> JNum(entry.x), y |-> JNum(entry.y),
   bubbleColumns |-> entry.slots]

\* the document of the scenario: v1|g:Intro@10,20{M1,M2}
IntroEntry == [title |-> <<"I", "n", "t", "r", "o">>, x |-> 10, y |-> 20, slots |-> <<M1, M2>>]

IntroDocument ==
  PlainText(<<"v", "1", "|", "g", ":", "I", "n", "t", "r", "o", "@", "1", "0", ",",
              "2", "0", "{", "M", "1", ",", "M", "2", "}">>)

(***************************************************************************)
(* C18  A legacy document decodes to one group for each of its entries, in *)
(* the written order, with the entry's title, position and slot names in   *)
(* the written order; the flow imported from it has these groups at these  *)
(* positions and no edge.  The document v1|g:Intro@10,20{M1,M2} decodes to *)
(* exactly one group titled Intro at (10,20) with the slots M1, M2.        *)
(***************************************************************************)
C18_LegacyDecode ==
  /\ parsePosicaoAuto(IntroDocument).kind = "v1"
  /\ parsePosicaoAuto(IntroDocument).v1 = << GroupOfEntry(IntroEntry) >>
  /\ ImportedLegacy =>
       LET entries == LegacyEntriesOf(row)
           decoded == parsePosicaoAuto(row.posicao)
       IN  /\ decoded.kind = "v1"
           /\ decoded.v1 = [i \in 1..Len(entries) |-> GroupOfEntry(entries[i])]
           /\ edges = <<>>
           /\ Len(GroupsOf(nodes)) = Len(entries)
           /\ \A i \in 1..Len(entries) :
                /\ GroupsOf(nodes)[i].label = entries[i].title
                /\ GroupsOf(nodes)[i].position
                     = [x |-> Whole(entries[i].x), y |-> Whole(entries[i].y)]
                /\ IsPrefix(WithFetchedStep(entries[i].slots, row),
                            SlotNames(GroupsOf(nodes)[i].bubbles))

\* the document of the scenario, imported with M1 and M2 fetched
C18_Witness ==
  /\ ImportedLegacy
  /\ row.posicao = IntroDocument
  /\ FetchedSlots(row) = {M1, M2}
  /\ Len(GroupsOf(nodes)) = 1
  /\ GroupsOf(nodes)[1].label = <<"I", "n", "t", "r", "o">>
  /\ GroupsOf(nodes)[1].position = [x |-> Whole(10), y |-> Whole(20)]
  /\ SlotNames(GroupsOf(nodes)[1].bubbles) = <<M1, M2>>
  /\ edges = <<>>

(***************************************************************************)
(* Vocabulary of C19: the texts that are no well-formed document           *)
(***************************************************************************)
MalformedPosicaoTexts == { MalformedPosicao[i] : i \in 1..Len(MalformedPosicao) }

\* the BLK documents of version 1 whose entries are all notes
WellFormedBlkTexts ==
  { JsonText(JObj([v |-> JNum(1), n |-> JArr(<<>>)])),
    JsonText(JObj([v |-> JNum(1),
                   n |-> JArr(<<BlkEntry(JId("NOTE:g1"), JNum(10), JStr(<<"h", "i">>))>>)])) }

MalformedBlkTexts == { BlkTexts[i] : i \in 1..Len(BlkTexts) } \ WellFormedBlkTexts

\* null, or a layout without any group or edge
NoStructure(result) ==
  \/ result.kind = "null"
  \/ result.kind = "v1" /\ result.v1 = <<>>
  \/ result.kind = "v2" /\ result.v2[1].groups = <<>> /\ result.v2[1].edges = <<>>

(***************************************************************************)
(* C19  parsePosicaoAuto does not throw, and returns no structure for a    *)
(* POSICAO text that is no well-formed document of a supported version;    *)
(* decodeBlk returns the empty list for a BLK text that is none.           *)
(***************************************************************************)
C19_MalformedYieldsNothing ==
  /\ ~parsePosicaoAuto(row.posicao).threw
  /\ row.posicao \in MalformedPosicaoTexts => NoStructure(parsePosicaoAuto(row.posicao))
  /\ row.blk \in MalformedBlkTexts => decodeBlk(row.blk) = <<>>

(***************************************************************************)
(* Vocabulary of C20: the steps that edit a note node                      *)
(***************************************************************************)
\* the step added, edited, moved, resized or deleted a note node
NoteNodeEdited ==
  \/ last'.op \in {"onCanvasDrop:note", "handleSaveNote", "handleDeleteNoteNode"}
  \/ last'.op \in {"onNodeDragStop", "onNodeDragStop:resize"} /\ last'.type = "note"

NoteNodesOf(ns) == SelectSeq(ns, LAMBDA n : n.type = "note")

(***************************************************************************)
(* C20  A step that adds, edits, moves, resizes or deletes a note node     *)
(* leaves the canonical group order, the slot of every step and the        *)
(* document of encodePosicaoV2 as they were.                               *)
(***************************************************************************)
C20_NoteEditsInvisible ==
  [][ NoteNodeEdited =>
        /\ calculateGroupOrder(nodes', edges') = calculateGroupOrder(nodes, edges)
        /\ SlotsOf(nodes') = SlotsOf(nodes)
        /\ encodePosicaoV2(nodes', edges') = encodePosicaoV2(nodes, edges) ]_vars

\* a note node moved next to two groups that hold a step each and are
\* joined by an edge
C20_Witness ==
  /\ last.op = "onNodeDragStop"
  /\ last.type = "note"
  /\ Len(NoteNodesOf(nodes)) = 1
  /\ Len(GroupsOf(nodes)) = 2
  /\ Len(Steps(nodes)) = 2
  /\ Len(edges) = 1

(***************************************************************************)
(* Vocabulary of C21: the notes decoded from the BLK document of the flow  *)
(***************************************************************************)
DecodedNotes(ns) == decodeBlk(encodeBlk(ns))

\* the decoded notes that carry the identifier of the node
DecodedFor(ns, node) ==
  { k \in 1..Len(DecodedNotes(ns)) : DecodedNotes(ns)[k].id = JId(node.id) }

\* the size and the style of the decoded note are those of the node
SameSizeAndStyle(decoded, node) ==
  /\ decoded.width = node.width
  /\ decoded.height = node.height
  /\ decoded.noteData.fontSize = node.note.fontSize
  /\ decoded.noteData.textColor = node.note.textColor
  /\ decoded.noteData.bgColor = node.note.bgColor

PayloadOf(b) ==
  CASE b.type = "message" -> [content |-> Field(b.data, "content")]
    [] b.type = "message-utm" ->
         [content |-> Field(b.data, "content"), utm |-> Field(b.data, "utm")]
    [] b.type = "message-time" -> [rules |-> Field(b.data, "timeMessageRules")]
    [] b.type \in {"photo-caption-time", "video-caption-time"} ->
         [rules |-> Field(b.data, "timeMediaRules")]
    [] b.type \in {"photo", "video", "audio"} -> [mediaUrl |-> Field(b.data, "mediaUrl")]
    [] b.type \in {"photo-caption", "video-caption"} ->
         [mediaUrl |-> Field(b.data, "mediaUrl"), caption |-> Field(b.data, "caption")]
    [] b.type = "time" ->
         [timeMin |-> NumberField(b.data, "timeMin", 5),
          timeMax |-> NumberField(b.data, "timeMax", 10)]
    [] b.type = "hook" /\ ActionField(b.data, "hookAction") = "delete" ->
         [action |-> "delete", flow |-> DestName(b.data, "hookFlowId")]
    [] b.type = "hook" /\ ActionField(b.data, "hookAction") # "delete" ->
         [action |-> "add", flow |-> DestName(b.data, "hookFlowId"),
          hours |-> NumberField(b.data, "hookHours", 0),
          minutes |-> NumberField(b.data, "hookMinutes", 0)]
    [] b.type = "delete-hook" -> [flow |-> DestName(b.data, "hookFlowId")]
    [] b.type = "deliverable" ->
         [action |-> ActionField(b.data, "deliverableAction"),
          flow |-> Or(trim(FlowNameById(Field(b.data, "deliverableFlowId"))),
                      Field(b.data, "content"))]
    [] b.type = "reminder" /\ ActionField(b.data, "reminderAction") = "add" ->
         [action |-> "add", flow |-> DestName(b.data, "reminderFlowId"),
          hours |-> NumberField(b.data, "reminderHours", 0),
          minutes |-> NumberField(b.data, "reminderMinutes", 0)]
    [] b.type = "reminder" /\ ActionField(b.data, "reminderAction") # "add" ->
         [action |-> "delete", flow |-> DestName(b.data, "reminderFlowId")]
    [] OTHER -> <<>>

\* a step was written to its cell and the cell was read back
ReadBack == last.op = "parseSupabaseRow:cell" /\ row.bubble # NoBubble

(***************************************************************************)
(* C22  Codec symmetry: the step read back from the cell string that       *)
(* buildSupabaseValueForBubble made of a step has the kind and the payload *)
(* of that step, for every kind and every payload the editor saves.        *)
(***************************************************************************)
C22_CodecSymmetry ==
  ReadBack => /\ row.parsed.type = row.bubble.type
              /\ PayloadOf(row.parsed) = PayloadOf(row.bubble)

(***************************************************************************)
(* Vocabulary of C23                                                       *)
(***************************************************************************)
\* a cell of a column M was read by parseColumnValue
CellParsed ==
  last.op = "parseSupabaseRow:cell" /\ row.value # <<>> /\ Head(row.column) = "M"

StartsWithNoPrefix(v) == \A p \in RecognisedPrefixes : ~StartsWith(v, p)

\* a value that starts with a longer prefix does not get the kind of one of
\* the shorter prefixes it also starts with
LongerPrefixWins(v, type) ==
  /\ (StartsWith(v, <<"M", "S", "G", "-", "U", "T", "M", "-">>) \/ StartsWith(v, <<"M", "S", "G", "-", "T", "E", "M", "P", "O", "-">>)) => type # "message"
  /\ (StartsWith(v, <<"F", "T", "-", "C", "-", "T", ";">>) \/ StartsWith(v, <<"F", "T", "-", "C", "-", "T", "-">>))
       => type \notin {"photo-caption", "photo"}
  /\ (StartsWith(v, <<"V", "D", "-", "C", "-", "T", ";">>) \/ StartsWith(v, <<"V", "D", "-", "C", "-", "T", "-">>))
       => type \notin {"video-caption", "video"}
  /\ StartsWith(v, <<"F", "T", "-", "C", "-">>) => type # "photo"
  /\ StartsWith(v, <<"V", "D", "-", "C", "-">>) => type # "video"

IsPlainMessage(parsed, content) ==
  parsed.type = "message" /\ Field(parsed.data, "content") = content

(***************************************************************************)
(* C23  As claimed: a value that starts with a longer prefix is never      *)
(* decoded as the kind of one of its shorter sub-prefixes, and a value     *)
(* that is not empty and starts with no recognised prefix decodes as a     *)
(* plain message whose content is the whole value.                         *)
(***************************************************************************)
C23_MostSpecificPrefix ==
  CellParsed =>
    /\ LongerPrefixWins(row.value, row.parsed.type)
    /\ StartsWithNoPrefix(row.value) => IsPlainMessage(row.parsed, row.value)

(***************************************************************************)
(* C23  What holds instead: the value is decoded without the blanks around *)
(* it. A value of blanks only decodes as no step; otherwise the longer     *)
(* prefix wins over its sub-prefixes, and a trimmed value that starts with *)
(* no recognised prefix decodes as a plain message whose content is the    *)
(* trimmed value.                                                          *)
(***************************************************************************)
C23_MostSpecificPrefixOfTrimmed ==
  CellParsed =>
    IF trim(row.value) = <<>> THEN row.parsed = NoBubble
    ELSE /\ LongerPrefixWins(trim(row.value), row.parsed.type)
         /\ StartsWithNoPrefix(trim(row.value))
              => IsPlainMessage(row.parsed, trim(row.value))

\* a value in the format VD-C-T;start|end|url|caption was read as a video with
\* caption and time rule
C23_Witness ==
  /\ CellParsed
  /\ row.value = <<"V", "D", "-", "C", "-", "T", ";", "0", "0", ":", "0", "0", "|", "2", "3", ":", "5", "9", "|", "h", "t", "t", "p", ":", "/", "/", "p", "|", "c">>
  /\ row.parsed.type = "video-caption-time"
  /\ Len(row.parsed.data.timeMediaRules) = 1
  /\ row.parsed.data.timeMediaRules[1].mediaUrl = <<"h", "t", "t", "p", ":", "/", "/", "p">>

(***************************************************************************)
(* Vocabulary of C24                                                       *)
(***************************************************************************)
\* the bubbles of the flow that hold the slot
HoldersOf(ns, slot) ==
  SelectSeq(getAllBubblesFromFlowNodes(ns), LAMBDA b : HeldSlot(b) = slot)

(***************************************************************************)
(* C24  After a publish the row holds a key for every slot M1..M50 and     *)
(* T1..T50: under the slot a step holds, the encoded payload of that step; *)
(* under every other slot, null, whatever the row held before.             *)
(***************************************************************************)
C24_PublishOverwritesEverySlot ==
  last.op = "handlePublish" =>
    \A slot \in AllSlots :
      /\ slot \in DOMAIN row.cells
      /\ row.cells[slot] =
           IF HoldersOf(nodes, slot) = <<>> THEN NullText
           ELSE PlainText(buildSupabaseValueForBubble(StepOf(HoldersOf(nodes, slot)[1])))

\* a publish that cleared a slot the row held before, with a step still held
C24_Witness ==
  /\ last.op = "handlePublish"
  /\ last.shifted # {}
  /\ \E slot \in AllSlots : row.cells[slot] = PlainText(<<"M", "S", "G", "-">>)
  /\ row.cells[buildColumn("M", 2)] = NullText

(***************************************************************************)
(* Vocabulary of C25                                                       *)
(***************************************************************************)
\* the nodes an edge leads to from a node of the set, added to the set until
\* none is left to add
RECURSIVE ReachableFrom(_, _)
ReachableFrom(ids, es) ==
  IF \A i \in 1..Len(es) : es[i].source \in ids => es[i].target \in ids
  THEN ids
  ELSE ReachableFrom(ids \cup { es[i].target : i \in { j \in 1..Len(es) : es[j].source \in ids } },
                     es)

\* no node is reached from a target of one of its own edges
AcyclicEdges(es) ==
  \A i \in 1..Len(es) : es[i].source \notin ReachableFrom({es[i].target}, es)

\* where the group stands in the order
PlaceIn(order, id) == CHOOSE k \in 1..Len(order) : order[k] = id

\* edges between two groups that are both reached from the start node
EdgesAmongReached(ns, es) ==
  { i \in 1..Len(es) :
      /\ es[i].source \in GroupIdsOf(ns) \cap ReachableFrom({StartNodeId}, es)
      /\ es[i].target \in GroupIdsOf(ns) \cap ReachableFrom({StartNodeId}, es) }

(***************************************************************************)
(* C25  With an acyclic edge set, every edge u -> v between two groups     *)
(* reached from the start node has u before v in the order                 *)
(* calculateGroupOrder returns.                                            *)
(***************************************************************************)
C25_TopologicalOrder ==
  AcyclicEdges(edges) =>
    \A i \in EdgesAmongReached(nodes, edges) :
      PlaceIn(CanonicalOrder(nodes, edges), edges[i].source)
        < PlaceIn(CanonicalOrder(nodes, edges), edges[i].target)

(***************************************************************************)
(* Vocabulary of C26 and C27                                               *)
(***************************************************************************)
\* two different non-note steps that hold a slot hold different slots
NoSlotHeldTwice(ns) ==
  \A i, j \in 1..Len(Steps(ns)) :
    (i # j /\ HeldSlot(Steps(ns)[i]) # <<>>)
      => HeldSlot(Steps(ns)[i]) # HeldSlot(Steps(ns)[j])

\* the step holds a slot that parses, of the letter of its kind
HoldsValidSlot(b) ==
  /\ parseColumn(b.supabaseColumn) # NULL
  /\ parseColumn(b.supabaseColumn).kind = getColumnKindForBubble(b.type)
  /\ parseColumn(b.supabaseColumn).index \in 1..COLUMN_LIMIT

(***************************************************************************)
(* C26  After any sequence of editor operations from a new flow, no two    *)
(* non-note steps of the flow hold the same slot.                          *)
(***************************************************************************)
C26_NoSlotHeldTwice == NoSlotHeldTwice(nodes)

(***************************************************************************)
(* C27  After any sequence of editor operations from a new flow, every     *)
(* non-note step holds a slot that parses as valid: the letter of its own  *)
(* kind and an index within 1..50.                                         *)
(***************************************************************************)
C27_EveryStepHoldsAValidSlot ==
  \A i \in 1..Len(Steps(nodes)) : HoldsValidSlot(Steps(nodes)[i])

(***************************************************************************)
(* C28  moveBubbleBetweenNodes neither loses nor duplicates a step: the    *)
(* steps of the flow are the same before and after the call, each of them  *)
(* once, and when the step is not in the source the flow is unchanged.     *)
(***************************************************************************)
C28_MoveKeepsEveryStep ==
  [][ /\ last'.op \in {"moveBubbleBetweenNodes", "moveBubbleBetweenNodes:notFound"}
        => /\ BubbleIdsOf(nodes') = BubbleIdsOf(nodes)
           /\ Len(getAllBubblesFromFlowNodes(nodes')) = Len(getAllBubblesFromFlowNodes(nodes))
      /\ last'.op = "moveBubbleBetweenNodes:notFound" => nodes' = nodes ]_vars

(***************************************************************************)
(* C29: operations addressed to another flow and currentFlow               *)
(***************************************************************************)
\* C29: in useWorkflowStore an operation called with a flowId that is not
\* the id of currentFlow leaves currentFlow as it was: addNode, updateNode,
\* deleteNode, addBubbleToNode, updateBubble, deleteBubble,
\* reorderBubblesInNode, moveBubbleBetweenNodes, addEdge and deleteEdge
C29_OtherFlowLeavesCurrentFlow ==
  [][ (last'.op \in StoreOps /\ row'.flowId # row.currentId)
        => /\ nodes' = nodes
           /\ edges' = edges
           /\ row'.currentId = row.currentId ]_vars

(***************************************************************************)
(* C30: the group order of a flow imported from its own exported file      *)
(***************************************************************************)
\* the ids of the groups in the order calculateGroupOrder returns
OrderedGroupIds(ns, es) ==
  [k \in 1..Len(calculateGroupOrder(ns, es)) |-> calculateGroupOrder(ns, es)[k].groupId]

\* the order is determined by edges leaving the start node: an edge leaves the
\* start node for a group, and every group is reached from the start node
OrderFromStartEdges(ns, es) ==
  /\ \E k \in 1..Len(es) : es[k].source = StartNodeId /\ es[k].target \in GroupIdsOf(ns)
  /\ GroupIdsOf(ns) \subseteq ReachableFrom({StartNodeId}, es)

\* the ids of an order, each replaced by the id the node at the same place
\* has after the import
RenamedOrder(order, before, after) ==
  [k \in 1..Len(order) |->
     after[CHOOSE i \in 1..Len(before) : before[i].id = order[k]].id]

\* C30: importing a flow from its own exported file keeps the group order:
\* calculateGroupOrder on the imported nodes and edges returns the groups in
\* the order it returns on the exported flow, each under its new id, when
\* the order of the exported flow is determined by edges leaving the start
\* node
C30_ImportKeepsGroupOrder ==
  [][ (last'.op = "processImportedFile" /\ OrderFromStartEdges(nodes, edges))
        => OrderedGroupIds(nodes', edges')
             = RenamedOrder(OrderedGroupIds(nodes, edges), nodes, nodes') ]_vars

====
